---- MODULE Spec2Model ----
(***************************************************************************)
(* A model of the GitHub star monitor of src/py/star.py: the state store   *)
(* (load_state / save_state), the interruptible wait, and the monitor loop *)
(* (initialize_stargazers, check_star_changes, cleanup).                   *)
(*                                                                         *)
(* The specifications share the variables:                                 *)
(*   Spec        the monitor loop of one run of the process;               *)
(*   FairSpec    the same with fairness, for termination;                  *)
(*   SpecSave    save_state taken one file-system operation at a time,     *)
(*               with the process stopping between operations and          *)
(*               restarting;                                               *)
(*   SpecWait    _wait_with_interrupt_check against a clock;               *)
(*   SpecRequest one call of _make_request, with its recursive retries;    *)
(*   SpecPages   one call of get_all_stargazers, page by page.             *)
(***************************************************************************)
EXTENDS Integers, Sequences, FiniteSets, TLC

\* ------------------------------------------------------------------ bounds
MaxUsers == 2          \* logins that can star the repository
MaxRemoteChanges == 1  \* star / unstar events of the remote repository in a run
MaxChecks == 1         \* check cycles the loop starts after initialization
MaxDelay == 5          \* longest delay of SpecWait, in ticks
TicksPerSecond == 2    \* resolution of the clock of SpecWait
MaxMutations == 1      \* in-memory changes between saves in SpecSave
MaxRetries == 2        \* rate-limited responses one call of SpecRequest can get
MaxNow == 5            \* latest clock reading of SpecRequest, in ticks
MaxSkew == 3           \* how far a reset time lies from the edges of the clamp
MaxItems == 620        \* longest remote list of SpecPages
MaxFailures == 2       \* page requests that fail in one fetch of SpecPages

\* ------------------------------------------------------- program constants
DriftTolerance == 10   \* abs(current_total_stars - self.total_stars) <= 10
MinWait == 1           \* max(1, ...)
MaxWait == 3600        \* min(wait_time, 3600)
PerPage == 100         \* per_page = 100
MaxConcurrent == 5     \* max_concurrent = min(5, 10)

Users == 1..MaxUsers

\* The configured repository (self.repo_full_name) and another one.
Repo == "x/z"
OtherRepo == "x/y"

\* ------------------------------------------------------------ member info
\* The value stored for a login is derived from the fetched item; what differs
\* between the places that build it is the set of keys.
InfoInit == {"html_url", "avatar_url", "id"}
InfoCheck == {"html_url", "avatar_url", "id", "login"}

EmptyInfo == [u \in {} |-> InfoInit]

\* ----------------------------------------------------------------- files
\* A file is absent, holds text that json.load rejects, or holds a JSON object.
\* stargazers is a JSON array; stargazers_info a JSON object, given by its members.
NoFile == [kind |-> "absent", repo |-> "", stargazers |-> <<>>, info |-> {}, total |-> 0]
BadFile == [kind |-> "corrupt", repo |-> "", stargazers |-> <<>>, info |-> {}, total |-> 0]

RECURSIVE SetToList(_)
\* list(a_set): an order that is fixed for a given set.
SetToList(S) ==
    IF S = {} THEN <<>>
    ELSE LET m == CHOOSE x \in S : \A y \in S : x <= y
         IN <<m>> \o SetToList(S \ {m})

\* set(a_list)
ListToSet(s) == {s[i] : i \in 1..Len(s)}

\* json.dump of a dict: its members.
DictToJson(d) == {<<k, d[k]>> : k \in DOMAIN d}

\* json.load of an object: the dict of its members.
JsonToDict(o) == [k \in {m[1] : m \in o} |-> (CHOOSE m \in o : m[1] = k)[2]]


\* -------------------------------------------------------------- variables
VARIABLES
    kill_now,            \* GracefulExit.kill_now
    is_shutting_down,    \* GitHubStarMonitor.is_shutting_down
    current_stargazers,  \* set of logins
    stargazers_info,     \* login -> info
    total_stars,
    state_file,          \* the file at self.state_file
    backup_file,         \* the file at self.state_file + ".backup"
    spc,                 \* SpecSave: where the process is inside save_state
    saveOld,             \* the primary file when the last save began
    saveNew,             \* the in-memory snapshot when the last save began
    saveEnd,             \* how the last save_state call ended
    restoreEnd,          \* what the failure handler of that call did
    lastLoad,            \* what the last load_state call returned
    savedMem,            \* the in-memory snapshot of the last successful save
    saveTwice,           \* the save in progress repeats the last successful one
    prevFile,            \* the primary file after the last successful save
    downAt,              \* where in save_state the process last stopped
    mutations,           \* SpecSave: in-memory changes made so far
    pc,                  \* where start_monitoring is
    mainEnd,             \* how start_monitoring ended: it returned or it raised
    session,             \* self.session
    remote,              \* the stargazers of the repository, at the remote end
    remoteChanges,       \* star / unstar events so far
    has_history,         \* initialize_stargazers: what load_state returned
    initPath,            \* the branch initialize_stargazers took
    live_total,          \* stargazers_count of the last repository response
    repoReq,             \* the get_repo_info request
    fpc,                 \* where get_all_stargazers is
    fetched,             \* logins of the list get_all_stargazers has built
    checks,              \* check cycles the loop has started
    lastCycle,           \* the last completed cycle
    finalSave,           \* how the save of cleanup ended
    seen,                \* logins fetched by the completed cycles of the run
    w_pc,                \* SpecWait: where _wait_with_interrupt_check is
    w_delay,             \* its argument, in ticks
    w_elapsed,           \* its local elapsed, in ticks
    w_sleep,             \* ticks left of the asyncio.sleep in progress
    w_age,               \* ticks since the flag was set during the wait
    r_pc,                \* SpecRequest: where _make_request is
    r_depth,             \* recursive invocations below the caller's
    r_sends,             \* times the request has been sent
    r_resp,              \* the last response
    r_now,               \* time.time() when it was rate limited, in ticks
    r_wait,              \* the wait computed from it, in seconds
    r_out,               \* how the call ended for the caller
    g_pc,                \* SpecPages: where get_all_stargazers is
    g_n,                 \* items of the remote list
    g_page,              \* page: the first page of the batch
    g_result,            \* stargazers: the runs of remote items appended so far
    g_requests,          \* page requests made
    g_failed,            \* pages whose request failed
    recent_activities,   \* SpecFeed: the activity feed, newest first
    daily_stats,         \* StarStats.daily_stats: day key -> gained, lost
    hourly_stats,        \* StarStats.hourly_stats: hour key -> gained, lost
    total_gained,        \* StarStats.total_gained
    total_lost,          \* StarStats.total_lost
    f_now,               \* datetime.now(), in ticks
    f_calls,             \* add_activity calls so far
    f_queries,           \* trend queries so far
    f_cache,             \* the lru_cache of get_cached_stats
    f_resp,              \* what the last trend query was answered with
    f_last,              \* the last operation on the feed or the statistics
    b_tasks,             \* SpecBatch: the page requests of the batch, by page
    last_check_time,     \* SpecStamp: self.last_check_time
    saved_check_time,    \* last_check_time of the state file
    c_pc,                \* SpecSession: where the run is
    c_tasks,             \* the requests under way: where each is, which session it uses
    c_session,           \* self.session: 0 for None, or the number of the session
    c_made,              \* sessions created so far
    c_closed             \* the sessions closed so far

shutdownVars == <<kill_now, is_shutting_down>>
memVars == <<current_stargazers, stargazers_info, total_stars>>
diskVars == <<state_file, backup_file>>
storeVars == <<spc, saveOld, saveNew, saveEnd, restoreEnd, lastLoad, savedMem, saveTwice,
               prevFile, downAt, mutations>>
monVars == <<pc, mainEnd, session, remote, remoteChanges, has_history,
             initPath, live_total, repoReq, fpc, fetched, checks,
             lastCycle, finalSave, seen>>
waitVars == <<w_pc, w_delay, w_elapsed, w_sleep, w_age>>
reqVars == <<r_pc, r_depth, r_sends, r_resp, r_now, r_wait, r_out>>
pageVars == <<g_pc, g_n, g_page, g_result, g_requests, g_failed>>
feedVars == <<recent_activities, daily_stats, hourly_stats, total_gained, total_lost, f_now, f_calls,
              f_queries, f_cache, f_resp, f_last>>
batchVars == <<b_tasks>>
stampVars == <<last_check_time, saved_check_time>>
sessVars == <<c_pc, c_tasks, c_session, c_made, c_closed>>
restVars == <<stampVars, sessVars>>
vars == <<shutdownVars, memVars, diskVars, storeVars, monVars, waitVars, reqVars,
          pageVars, feedVars, batchVars, restVars>>

\* ------------------------------------------------------------ StateStore
\* The in-memory snapshot, as one value.
Mem(cs, info, total) == [cs |-> cs, info |-> info, total |-> total]
FreshMem == Mem({}, EmptyInfo, 0)
NoMem == [cs |-> {}, info |-> EmptyInfo, total |-> -1]

\* state_data of save_state, as json.dump writes it.
StateDataLossy(repo, m) ==
    [kind |-> "snap", repo |-> repo, stargazers |-> SetToList(m.cs),
     info |-> {}, total |-> m.total]
StateData(repo, m) ==
    [kind |-> "snap", repo |-> repo, stargazers |-> SetToList(m.cs),
     info |-> DictToJson(m.info), total |-> m.total]

FileExists(f) == f.kind # "absent"

\* The file system as far as save_state touches it.
Fs(p, b) == [p |-> p, b |-> b]

\* if Path(self.state_file).exists(): Path(self.state_file).rename(backup_file)
RenameToBackup(fs) == IF FileExists(fs.p) THEN Fs(NoFile, fs.p) ELSE fs

\* with open(self.state_file, 'w') as f: json.dump(state_data, f)
\* how: "ok"; "open" (open raises, nothing is written); "partial" (the file is
\* created or truncated and the write raises before it is complete).
WriteFile(fs, data, how) ==
    CASE how = "ok" -> Fs(data, fs.b)
      [] how = "open" -> fs
      [] how = "partial" -> Fs(BadFile, fs.b)

\* if Path(backup_file).exists(): Path(backup_file).unlink()
UnlinkBackupKeeps(fs) == fs
UnlinkBackup(fs) == Fs(fs.p, NoFile)

\* The failure handler: if the backup exists, rename it to the primary path;
\* renamed is whether that rename succeeds (its own failure is logged).
RestoreBackup(fs, renamed) ==
    IF FileExists(fs.b) /\ renamed THEN Fs(fs.b, NoFile) ELSE fs

WriteHows == {"ok", "open", "partial"}
SaveFaults == {"none", "rename", "open", "partial", "unlink"}

\* A fault can happen only at an operation the call performs.
FaultPossible(fs, fault) ==
    CASE fault = "rename" -> FileExists(fs.p)
      [] fault = "unlink" -> FileExists(fs.p) \/ FileExists(fs.b)
      [] OTHER -> TRUE

\* One whole save_state call: the files it leaves.
SaveState(fs, data, fault, renamed) ==
    CASE fault = "none" -> UnlinkBackup(WriteFile(RenameToBackup(fs), data, "ok"))
      [] fault = "rename" -> RestoreBackup(fs, renamed)
      [] fault = "open" ->
            RestoreBackup(WriteFile(RenameToBackup(fs), data, "open"), renamed)
      [] fault = "partial" ->
            RestoreBackup(WriteFile(RenameToBackup(fs), data, "partial"), renamed)
      [] fault = "unlink" ->
            RestoreBackup(WriteFile(RenameToBackup(fs), data, "ok"), renamed)

\* load_state: whether history was loaded, and the memory it leaves.
LoadStateAnyRepo(f, m) ==
    IF f.kind = "snap"
    THEN [hit |-> TRUE, mem |-> Mem(ListToSet(f.stargazers), JsonToDict(f.info), f.total)]
    ELSE [hit |-> FALSE, mem |-> m]
LoadState(f, m) ==
    IF f.kind = "absent" THEN [hit |-> FALSE, mem |-> m]
    ELSE IF f.kind = "corrupt" THEN [hit |-> FALSE, mem |-> m]
    ELSE IF f.repo # Repo THEN [hit |-> FALSE, mem |-> m]
    ELSE [hit |-> TRUE,
          mem |-> Mem(ListToSet(f.stargazers), JsonToDict(f.info), f.total)]

\* The state files a run can find when it starts.
InfoOf(S, v) == [u \in S |-> v]
InitFiles ==
    {NoFile, BadFile}
    \cup {StateData(OtherRepo, Mem(Users, InfoOf(Users, InfoCheck), Cardinality(Users)))}
    \cup {StateData(Repo, Mem(S, InfoOf(S, InfoCheck), Cardinality(S))) : S \in SUBSET Users}
    \cup {StateData(Repo, Mem(Users, InfoOf(Users, InfoInit),
                               Cardinality(Users) + DriftTolerance + 1))}

CurMem == Mem(current_stargazers, stargazers_info, total_stars)
CurFs == Fs(state_file, backup_file)


\* -------------------------------------------------- SpecSave: save_state
\* The rest of the state is left alone by the actions of SpecSave.
SvFrame ==
    UNCHANGED <<shutdownVars, monVars, waitVars, reqVars, pageVars, feedVars, batchVars, restVars>>

\* The process starts: load_state into the fresh memory of __init__.
SvRestart ==
    /\ spc = "down"
    /\ LET r == LoadState(state_file, FreshMem)
       IN /\ lastLoad' = (IF r.hit THEN "hit" ELSE "miss")
          /\ current_stargazers' = r.mem.cs
          /\ stargazers_info' = r.mem.info
          /\ total_stars' = r.mem.total
    /\ spc' = "idle"
    /\ saveEnd' = "none"
    /\ restoreEnd' = "none"
    /\ UNCHANGED <<diskVars, saveOld, saveNew, savedMem, saveTwice, prevFile, downAt, mutations>>
    /\ SvFrame

\* A completed cycle changes the members, adds their info and sets the total.
SvMutate ==
    /\ spc = "idle"
    /\ mutations < MaxMutations
    /\ \E S \in SUBSET Users :
         /\ current_stargazers' = S
         /\ stargazers_info' =
              [u \in (DOMAIN stargazers_info) \cup S |->
                 IF u \in DOMAIN stargazers_info THEN stargazers_info[u] ELSE InfoCheck]
         /\ total_stars' = Cardinality(S)
    /\ mutations' = mutations + 1
    /\ lastLoad' = "none"
    /\ UNCHANGED <<diskVars, spc, saveOld, saveNew, saveEnd, restoreEnd, savedMem, saveTwice,
                   prevFile, downAt>>
    /\ SvFrame

\* save_state up to and including the rename of the primary file.
SvBegin ==
    /\ spc = "idle"
    /\ saveOld' = state_file
    /\ saveNew' = CurMem
    /\ savedMem' = NoMem
    /\ saveTwice' = (saveEnd = "ok" /\ savedMem = CurMem)
    /\ saveEnd' = "none"
    /\ restoreEnd' = "none"
    /\ lastLoad' = "none"
    /\ \/ /\ state_file' = RenameToBackup(CurFs).p
          /\ backup_file' = RenameToBackup(CurFs).b
          /\ spc' = "write"
       \/ /\ FileExists(state_file)
          /\ UNCHANGED diskVars
          /\ spc' = "restore_rename"
    /\ UNCHANGED <<memVars, prevFile, downAt, mutations>>
    /\ SvFrame

\* The write of the new snapshot.
SvWrite ==
    /\ spc = "write"
    /\ \E how \in WriteHows :
         /\ state_file' = WriteFile(CurFs, StateData(Repo, CurMem), how).p
         /\ backup_file' = WriteFile(CurFs, StateData(Repo, CurMem), how).b
         /\ spc' = (IF how = "ok" THEN "unlink" ELSE "restore_write")
    /\ UNCHANGED <<memVars, saveOld, saveNew, saveEnd, restoreEnd, lastLoad, savedMem, saveTwice,
                   prevFile, downAt, mutations>>
    /\ SvFrame

\* The removal of the backup, which ends a successful save.
SvUnlink ==
    /\ spc = "unlink"
    /\ \/ /\ state_file' = UnlinkBackup(CurFs).p
          /\ backup_file' = UnlinkBackup(CurFs).b
          /\ spc' = "idle"
          /\ saveEnd' = "ok"
          /\ savedMem' = CurMem
          /\ prevFile' = IF saveTwice THEN prevFile ELSE state_file
       \/ /\ FileExists(backup_file)
          /\ UNCHANGED <<diskVars, saveEnd, savedMem, prevFile>>
          /\ spc' = "restore_unlink"
    /\ UNCHANGED <<memVars, saveOld, saveNew, restoreEnd, lastLoad, saveTwice, downAt, mutations>>
    /\ SvFrame

\* The failure handler of save_state; the call then returns normally.
SvRestore ==
    /\ spc \in {"restore_rename", "restore_write", "restore_unlink"}
    /\ \E renamed \in BOOLEAN :
         /\ state_file' = RestoreBackup(CurFs, renamed).p
         /\ backup_file' = RestoreBackup(CurFs, renamed).b
         /\ restoreEnd' = (IF ~FileExists(backup_file) THEN "nobackup"
                           ELSE IF renamed THEN "renamed" ELSE "failed")
    /\ saveEnd' = (CASE spc = "restore_rename" -> "rename_failed"
                     [] spc = "restore_write" -> "write_failed"
                     [] spc = "restore_unlink" -> "unlink_failed")
    /\ spc' = "idle"
    /\ UNCHANGED <<memVars, saveOld, saveNew, lastLoad, savedMem, saveTwice, prevFile, downAt,
                   mutations>>
    /\ SvFrame

\* The process stops: between two operations of save_state, or outside it, or
\* (torn) in the middle of the write.
SvStop ==
    /\ spc # "down"
    /\ downAt' = spc
    /\ spc' = "down"
    /\ \/ UNCHANGED diskVars
       \/ /\ spc = "write"
          /\ state_file' = BadFile
          /\ downAt' = "torn"
          /\ UNCHANGED backup_file
    /\ current_stargazers' = {}
    /\ stargazers_info' = EmptyInfo
    /\ total_stars' = 0
    /\ UNCHANGED <<saveOld, saveNew, saveEnd, restoreEnd, lastLoad, savedMem, saveTwice,
                   prevFile, mutations>>
    /\ SvFrame

InitStore ==
    /\ spc = "down"
    /\ saveOld = NoFile
    /\ saveNew = NoMem
    /\ saveEnd = "none"
    /\ restoreEnd = "none"
    /\ lastLoad = "none"
    /\ savedMem = NoMem
    /\ saveTwice = FALSE
    /\ prevFile = NoFile
    /\ downAt = "none"
    /\ mutations = 0

InitMem ==
    /\ current_stargazers = {}
    /\ stargazers_info = EmptyInfo
    /\ total_stars = 0

InitShutdown ==
    /\ kill_now = FALSE
    /\ is_shutting_down = FALSE

NoCycle == [kind |-> "none", prev |-> {}, fetched |-> {}, added |-> {}, removed |-> {}]

InitMon ==
    /\ pc = "start"
    /\ mainEnd = "none"
    /\ session = "none"
    /\ remoteChanges = 0
    /\ has_history = FALSE
    /\ initPath = "none"
    /\ live_total = 0
    /\ repoReq = "none"
    /\ fpc = "none"
    /\ fetched = {}
    /\ checks = 0
    /\ lastCycle = NoCycle
    /\ finalSave = "none"
    /\ seen = {}

NoResponse == [status |-> 0, rate_limit |-> FALSE, reset |-> -1]

InitReq ==
    /\ r_pc = "idle"
    /\ r_depth = 0
    /\ r_sends = 0
    /\ r_resp = NoResponse
    /\ r_now = 0
    /\ r_wait = 0
    /\ r_out = "none"

InitPageVars ==
    /\ g_pc = "idle"
    /\ g_n = 0
    /\ g_page = 1
    /\ g_result = <<>>
    /\ g_requests = 0
    /\ g_failed = {}

\* StarStats.__init__ and the empty feed of GitHubStarMonitor.__init__; nothing
\* queried yet.
NoTrend == [labels |-> <<>>, gained |-> <<>>, lost |-> <<>>]
NoResponseYet == [status |-> "none", days |-> 0, data |-> NoTrend, hit |-> FALSE]

\* No batch of page requests has been gathered yet.
InitBatchVars == b_tasks = <<>>

\* __init__: no check time, no session; nothing saved and no request made yet.
NoTime == -1
InitRestVars ==
    /\ last_check_time = NoTime
    /\ saved_check_time = NoTime
    /\ c_pc = "start"
    /\ c_tasks = <<>>
    /\ c_session = 0
    /\ c_made = 0
    /\ c_closed = <<>>

InitFeedVars ==
    /\ recent_activities = <<>>
    /\ daily_stats = <<>>
    /\ hourly_stats = <<>>
    /\ total_gained = 0
    /\ total_lost = 0
    /\ f_now = 0
    /\ f_calls = 0
    /\ f_queries = 0
    /\ f_cache = <<>>
    /\ f_resp = NoResponseYet
    /\ f_last = "none"

InitWaitVars ==
    /\ w_pc = "idle"
    /\ w_delay = 0
    /\ w_elapsed = 0
    /\ w_sleep = 0
    /\ w_age = -1

InitSave ==
    /\ InitShutdown
    /\ InitMem
    /\ state_file \in InitFiles
    /\ backup_file = NoFile
    /\ InitStore
    /\ InitMon
    /\ remote = {}
    /\ InitWaitVars
    /\ InitReq
    /\ InitPageVars
    /\ InitFeedVars
    /\ InitBatchVars
    /\ InitRestVars

NextSave ==
    \/ SvRestart
    \/ SvMutate
    \/ SvBegin
    \/ SvWrite
    \/ SvUnlink
    \/ SvRestore
    \/ SvStop

SpecSave == InitSave /\ [][NextSave]_vars

\* ------------------------------------------------------ claims: StateStore
\* A save has returned after its write failed, and a snapshot was there before.
WriteFailed == spc = "idle" /\ saveEnd = "write_failed" /\ saveOld.kind = "snap"

\* C3 as stated: when the write of the new snapshot fails, save_state returns
\* normally and the primary file holds the previous snapshot again.
C3_PrimaryHoldsPrevious == WriteFailed => state_file = saveOld

\* The process stopped inside save_state and has just loaded again.
LoadedAfterStopInSave ==
    /\ spc = "idle"
    /\ lastLoad # "none"
    /\ downAt \in {"write", "torn", "unlink", "restore_rename", "restore_write",
                   "restore_unlink"}

\* C4: if the process stops at any point between the steps of a save that began
\* with a valid snapshot on disk, the load of the restart returns a complete
\* snapshot: the previous one or the new one.
C4_CrashSafe ==
    (LoadedAfterStopInSave /\ saveOld.kind = "snap" /\ saveOld.repo = Repo) =>
        /\ lastLoad = "hit"
        /\ CurMem \in {LoadState(saveOld, FreshMem).mem, saveNew}

\* C6: a successful save of the in-memory snapshot followed by a load under the
\* same identity restores the members, their info and the total.
C6_RoundTrip ==
    (spc = "idle" /\ lastLoad # "none" /\ savedMem # NoMem) =>
        (lastLoad = "hit" /\ CurMem = savedMem)

C6_Witness ==
    /\ spc = "idle"
    /\ lastLoad = "hit"
    /\ savedMem # NoMem
    /\ savedMem.cs # {}
    /\ DOMAIN savedMem.info # savedMem.cs

\* C7 as stated: a backup file exists only between the steps of a save, so none
\* is left after a successful save, and a save that repeats the previous
\* successful one leaves the primary file as that one left it.
C7_BackupOnlyInsideSave ==
    /\ spc = "idle" => backup_file = NoFile
    /\ (spc = "idle" /\ saveEnd = "ok" /\ saveTwice) => state_file = prevFile

\* C7 amended: after a successful save no backup file is left, whatever an
\* earlier failed or interrupted save left behind, and a save that repeats the
\* previous successful one leaves the primary file as that one left it.
C7_NoBackupIdempotent ==
    (spc = "idle" /\ saveEnd = "ok") =>
        /\ backup_file = NoFile
        /\ saveTwice => state_file = prevFile

C7_Witness ==
    /\ spc = "idle"
    /\ saveEnd = "ok"
    /\ saveTwice
    /\ saveOld.kind = "snap"
    /\ current_stargazers # {}

\* ------------------------------------------------------------ MonitorLoop
ShouldExitBoth == kill_now /\ is_shutting_down
ShouldExitNever == FALSE
ShouldExitShuttingDownOnly == is_shutting_down
ShouldExit == kill_now \/ is_shutting_down

MonFrame == UNCHANGED <<storeVars, waitVars, reqVars, pageVars, feedVars, batchVars, restVars>>

\* GracefulExit._exit_gracefully
ExitGracefullyToggles(flag) == ~flag
ExitGracefully(flag) == TRUE

\* _create_session / _close_session
CreateSession(s) == IF s = "none" THEN "open" ELSE s
CloseSessionLeaks(s) == s
CloseSession(s) == IF s # "none" THEN "none" ELSE s

Abs(n) == IF n < 0 THEN -n ELSE n

\* abs(current_total_stars - self.total_stars) <= 10
SmallDriftAlways(live, total) == TRUE
SmallDrift(live, total) == Abs(live - total) <= DriftTolerance

\* new_stars and removed_stars of check_star_changes
NewStarsAll(new, cur) == new
NewStars(new, cur) == new \ cur
RemovedStars(new, cur) == cur \ new

\* The logins check_star_changes reports as added: those of new_stars for which
\* the fetched list has an item.
ReportedAddedNone(new, cur) == {}
ReportedAdded(new, cur) == {u \in NewStars(new, cur) : u \in new}
ReportedRemoved(new, cur) == RemovedStars(new, cur)

\* stargazers_info after check_star_changes: the added logins are stored
\* (overwriting), then every fetched login that has no entry yet.
InfoAfterCheckOfMembers(info, new, cur) == [u \in new |-> InfoCheck]
InfoAfterCheck(info, new, cur) ==
    [u \in (DOMAIN info) \cup new |->
        IF u \in ReportedAdded(new, cur) THEN InfoCheck
        ELSE IF u \in DOMAIN info THEN info[u] ELSE InfoCheck]

\* asyncio.gather of check_star_changes returns when both requests have ended.
BothEndedFetchOnly(f, r) == f \in {"done", "raised"}
BothEnded(f, r) == f \in {"done", "raised"} /\ r \in {"ok", "err", "cancelled"}

\* check_star_changes returns early when either result is an exception.
CycleFailedFetchOnly(f, r) == f = "raised"
CycleFailed(f, r) == f = "raised" \/ r # "ok"

\* stargazers_info as initialize_stargazers rebuilds it
InfoAfterInitEmpty(list) == EmptyInfo
InfoAfterInit(list) == [u \in list |-> InfoInit]

\* The monitor loop never reads the state file after load_state, and a failed
\* save_state returns normally without changing anything in memory: the loop is
\* examined with saves that succeed, the save of cleanup excepted. SpecSave
\* examines the faults, one file-system operation at a time.
LoopFaults == {"none"}

\* The files after one save_state call of the loop.
SaveFilesSkipped(m, fault, renamed) == UNCHANGED diskVars
SaveFiles(m, fault, renamed) ==
    /\ state_file' = SaveState(CurFs, StateData(Repo, m), fault, renamed).p
    /\ backup_file' = SaveState(CurFs, StateData(Repo, m), fault, renamed).b

\* A termination signal (SIGTERM, SIGINT, SIGHUP) is delivered.
Signal ==
    /\ pc # "stopped"
    /\ kill_now' = ExitGracefully(kill_now)
    /\ UNCHANGED <<is_shutting_down, memVars, diskVars, monVars>>
    /\ MonFrame

\* Somebody stars or unstars the repository.
RemoteChange ==
    /\ pc # "stopped"
    /\ remoteChanges < MaxRemoteChanges
    /\ \E u \in Users : remote' = (IF u \in remote THEN remote \ {u} ELSE remote \cup {u})
    /\ remoteChanges' = remoteChanges + 1
    /\ UNCHANGED <<shutdownVars, memVars, diskVars, pc, mainEnd, session, has_history, initPath, live_total, repoReq, fpc, fetched, checks, lastCycle, finalSave>>
    /\ UNCHANGED seen
    /\ MonFrame

\* start_monitoring up to the call of initialize_stargazers.
StartWebServer ==
    /\ pc = "start"
    /\ \/ pc' = "init" /\ UNCHANGED mainEnd
       \/ pc' = "finally" /\ mainEnd' = "error"
    /\ UNCHANGED <<shutdownVars, memVars, diskVars, session, remote, remoteChanges,
                   has_history, initPath, live_total, repoReq, fpc, fetched, checks, lastCycle, finalSave>>
    /\ UNCHANGED seen
    /\ MonFrame

\* initialize_stargazers up to the repository request being sent.
InitBegin ==
    /\ pc = "init"
    /\ IF ShouldExit
       THEN /\ pc' = "after_init"
            /\ initPath' = "cancelled"
            /\ UNCHANGED <<memVars, has_history, session, repoReq>>
       ELSE /\ LET r == LoadState(state_file, CurMem)
               IN /\ has_history' = r.hit
                  /\ current_stargazers' = r.mem.cs
                  /\ stargazers_info' = r.mem.info
                  /\ total_stars' = r.mem.total
            /\ session' = CreateSession(session)
            /\ repoReq' = "sent"
            /\ pc' = "init_repo"
            /\ UNCHANGED initPath
    /\ UNCHANGED <<shutdownVars, diskVars, mainEnd, remote, remoteChanges, live_total, fpc, fetched, checks, lastCycle, finalSave>>
    /\ UNCHANGED seen
    /\ MonFrame

\* ------------------------------------------- _make_request of get_repo_info
RepoFrame ==
    /\ UNCHANGED <<shutdownVars, memVars, diskVars, pc, mainEnd, session, remote,
                   remoteChanges, has_history, initPath, fpc, fetched, checks, lastCycle, finalSave>>
    /\ UNCHANGED seen
    /\ MonFrame

RepoOk ==
    /\ repoReq = "sent"
    /\ repoReq' = "ok"
    /\ live_total' = Cardinality(remote)
    /\ RepoFrame

RepoErr ==
    /\ repoReq = "sent"
    /\ repoReq' = "err"
    /\ UNCHANGED live_total
    /\ RepoFrame

RepoRateLimited ==
    /\ repoReq = "sent"
    /\ repoReq' = "wait"
    /\ UNCHANGED live_total
    /\ RepoFrame

\* The rate-limit wait of the request ends: interrupted, or over, and then the
\* request is made again unless the flag is set by then.
RepoWaitEnd ==
    /\ repoReq = "wait"
    /\ repoReq' = (IF ShouldExit THEN "cancelled" ELSE "sent")
    /\ UNCHANGED live_total
    /\ RepoFrame

\* initialize_stargazers from the repository response to the next request.
InitAfterRepo ==
    /\ pc = "init_repo"
    /\ repoReq \in {"ok", "err", "cancelled"}
    /\ CASE repoReq = "err" ->
              /\ pc' = "finally"
              /\ mainEnd' = "error"
              /\ initPath' = "error"
              /\ repoReq' = "none"
              /\ UNCHANGED <<total_stars, fpc>>
         [] repoReq = "cancelled" ->
              /\ pc' = "after_init"
              /\ initPath' = "cancelled"
              /\ repoReq' = "none"
              /\ UNCHANGED <<total_stars, fpc, mainEnd>>
         [] repoReq = "ok" /\ ShouldExit ->
              /\ pc' = "after_init"
              /\ initPath' = "cancelled"
              /\ repoReq' = "none"
              /\ UNCHANGED <<total_stars, fpc, mainEnd>>
         [] repoReq = "ok" /\ ~ShouldExit /\ has_history
                /\ SmallDrift(live_total, total_stars) ->
              /\ total_stars' = live_total
              /\ initPath' = "incremental"
              /\ pc' = "init_check"
              /\ fpc' = "first"
              /\ repoReq' = "sent"
              /\ UNCHANGED mainEnd
         [] OTHER ->
              /\ initPath' = "full"
              /\ pc' = "init_fetch"
              /\ fpc' = "first"
              /\ repoReq' = "none"
              /\ UNCHANGED <<total_stars, mainEnd>>
    /\ fetched' = {}
    /\ UNCHANGED <<shutdownVars, current_stargazers, stargazers_info, diskVars, session,
                   remote, remoteChanges, has_history, live_total, checks, lastCycle, finalSave>>
    /\ UNCHANGED seen
    /\ MonFrame

\* ------------------------------------------------------ get_all_stargazers
FetchFrame ==
    /\ UNCHANGED <<shutdownVars, memVars, diskVars, pc, mainEnd, session, remote,
                   remoteChanges, has_history, initPath, live_total, repoReq, checks, lastCycle, finalSave>>
    /\ UNCHANGED seen
    /\ MonFrame

\* The first page arrives: short (the whole list), or full.
FirstPageOk ==
    /\ fpc = "first"
    /\ \/ /\ fetched' = remote
          /\ fpc' = "done"
       \/ \E P \in (SUBSET remote) \ {{}} :
            /\ fetched' = P
            /\ fpc' = (IF ShouldExit THEN "done" ELSE "batch")
    /\ FetchFrame

\* The first page request fails: the error leaves get_all_stargazers.
FirstPageErr ==
    /\ fpc = "first"
    /\ fpc' = "raised"
    /\ UNCHANGED fetched
    /\ FetchFrame

FirstPageRateLimited ==
    /\ fpc = "first"
    /\ fpc' = "first_wait"
    /\ UNCHANGED fetched
    /\ FetchFrame

\* The rate-limit wait of the first page ends: interrupted (the fetch ends with
\* what it has), or over, and then the request is made again.
FirstPageWaitEnd ==
    /\ fpc = "first_wait"
    /\ fpc' = (IF ShouldExit THEN "done" ELSE "first")
    /\ UNCHANGED fetched
    /\ FetchFrame

\* A batch has been gathered and no element of it was cancelled.
BatchDone ==
    /\ fpc = "batch"
    /\ \E Q \in SUBSET remote :
         /\ fetched' = fetched \cup Q
         /\ \/ fpc' = "done"
            \/ Q # {} /\ fpc' = "delay"
    /\ FetchFrame

\* An element of the batch is told to wait for the rate limit.
BatchRateLimited ==
    /\ fpc = "batch"
    /\ fpc' = "batch_wait"
    /\ UNCHANGED fetched
    /\ FetchFrame

\* The rate-limit wait of a batch element is over and its request is made again.
BatchWaitEnd ==
    /\ fpc = "batch_wait"
    /\ ~ShouldExit
    /\ fpc' = "batch"
    /\ UNCHANGED fetched
    /\ FetchFrame

\* The wait of a batch element is interrupted: the element ends cancelled and
\* the batch is gathered with a CancelledError among its results. Where
\* CancelledError is an Exception the result is skipped; where it is not,
\* extending the list with it raises TypeError, unless a short page that comes
\* before it in the batch has ended the fetch.
BatchCancelled ==
    /\ fpc = "batch_wait"
    /\ ShouldExit
    /\ \/ /\ fpc' = "raised"
          /\ UNCHANGED fetched
       \/ /\ fpc' = "done"
          /\ \E Q \in SUBSET remote : fetched' = fetched \cup Q
    /\ FetchFrame

\* The inter-batch delay ends: interrupted, or over, and then the loop test.
BatchDelayEnd ==
    /\ fpc = "delay"
    /\ fpc' = (IF ShouldExit THEN "done" ELSE "batch")
    /\ UNCHANGED fetched
    /\ FetchFrame

\* ------------------------------------------------ cycles of the monitor loop
\* initialize_stargazers after the full fetch: rebuild, then save.
InitFetchDone ==
    /\ pc = "init_fetch"
    /\ fpc \in {"done", "raised"}
    /\ IF fpc = "raised"
       THEN /\ pc' = "finally"
            /\ mainEnd' = "error"
            /\ UNCHANGED <<memVars, diskVars, lastCycle, seen>>
       ELSE IF ShouldExit
       THEN /\ pc' = "after_init"
            /\ UNCHANGED <<memVars, diskVars, lastCycle, mainEnd, seen>>
       ELSE /\ current_stargazers' = fetched
            /\ stargazers_info' = InfoAfterInit(fetched)
            /\ total_stars' = live_total
            /\ \E fault \in LoopFaults, renamed \in {TRUE} :
                 /\ FaultPossible(CurFs, fault)
                 /\ SaveFiles(Mem(fetched, InfoAfterInit(fetched), live_total),
                              fault, renamed)
            /\ lastCycle' = [kind |-> "init", prev |-> current_stargazers,
                             fetched |-> fetched, added |-> {}, removed |-> {}]
            /\ seen' = seen \cup fetched
            /\ pc' = "after_init"
            /\ UNCHANGED mainEnd
    /\ fpc' = "none"
    /\ fetched' = {}
    /\ live_total' = 0
    /\ UNCHANGED <<shutdownVars, session, remote, remoteChanges, has_history,
                   initPath, repoReq, checks, finalSave>>
    /\ MonFrame

\* start_monitoring after initialize_stargazers returned.
AfterInit ==
    /\ pc = "after_init"
    /\ IF ShouldExit
       THEN pc' = "finally" /\ mainEnd' = "return"
       ELSE pc' = "sleep" /\ UNCHANGED mainEnd
    /\ has_history' = FALSE
    /\ initPath' = "none"
    /\ UNCHANGED <<shutdownVars, memVars, diskVars, session, remote, remoteChanges,
                   live_total, repoReq, fpc, fetched, checks, lastCycle,
                   finalSave>>
    /\ UNCHANGED seen
    /\ MonFrame

\* The interval sleep ends: interrupted (the loop ends), or over, and then
\* check_star_changes starts both requests unless the flag is set by then.
SleepEnd ==
    /\ pc = "sleep"
    /\ IF ShouldExit
       THEN /\ pc' = "finally"
            /\ mainEnd' = "return"
            /\ UNCHANGED <<session, fpc, repoReq, checks, lastCycle>>
       ELSE /\ checks < MaxChecks
            /\ checks' = checks + 1
            /\ lastCycle' = NoCycle
            /\ pc' = "check"
            /\ session' = CreateSession(session)
            /\ fpc' = "first"
            /\ repoReq' = "sent"
            /\ UNCHANGED mainEnd
    /\ fetched' = {}
    /\ UNCHANGED <<shutdownVars, memVars, diskVars, remote, remoteChanges, has_history,
                   initPath, live_total, finalSave>>
    /\ UNCHANGED seen
    /\ MonFrame

\* check_star_changes after both requests have ended: diff, update, save.
CheckProcess ==
    /\ pc \in {"check", "init_check"}
    /\ BothEnded(fpc, repoReq)
    /\ IF CycleFailed(fpc, repoReq) \/ ShouldExit
       THEN UNCHANGED <<memVars, diskVars, lastCycle, seen>>
       ELSE /\ current_stargazers' = fetched
            /\ stargazers_info' =
                 InfoAfterCheck(stargazers_info, fetched, current_stargazers)
            /\ total_stars' = live_total
            /\ \E fault \in LoopFaults, renamed \in {TRUE} :
                 /\ FaultPossible(CurFs, fault)
                 /\ SaveFiles(Mem(fetched,
                                  InfoAfterCheck(stargazers_info, fetched,
                                                 current_stargazers),
                                  live_total),
                              fault, renamed)
            /\ lastCycle' = [kind |-> "check", prev |-> current_stargazers,
                             fetched |-> fetched,
                             added |-> ReportedAdded(fetched, current_stargazers),
                             removed |-> ReportedRemoved(fetched, current_stargazers)]
            /\ seen' = seen \cup fetched
    /\ pc' = (IF pc = "check" THEN "sleep" ELSE "after_init")
    /\ fpc' = "none"
    /\ repoReq' = "none"
    /\ fetched' = {}
    /\ live_total' = 0
    /\ UNCHANGED <<shutdownVars, mainEnd, session, remote, remoteChanges, has_history, initPath, checks, finalSave>>
    /\ MonFrame

\* The finally clause of start_monitoring: cleanup.
CleanupSkipsSave ==
    /\ pc = "finally"
    /\ is_shutting_down' = TRUE
    /\ session' = CloseSession(session)
    /\ pc' = "stopped"
    /\ UNCHANGED <<kill_now, memVars, diskVars, mainEnd, remote, remoteChanges, has_history, initPath, live_total, repoReq, fpc, fetched, checks, lastCycle, finalSave>>
    /\ UNCHANGED seen
    /\ MonFrame

Cleanup ==
    /\ pc = "finally"
    /\ is_shutting_down' = TRUE
    /\ session' = CloseSession(session)
    /\ \E fault \in SaveFaults, renamed \in BOOLEAN :
         /\ FaultPossible(CurFs, fault)
         /\ fault = "none" => renamed
         /\ SaveFiles(CurMem, fault, renamed)
         /\ finalSave' = (IF fault = "none" THEN "saved" ELSE "caught")
    /\ pc' = "stopped"
    /\ UNCHANGED <<kill_now, memVars, mainEnd, remote, remoteChanges, has_history, initPath, live_total, repoReq, fpc, fetched, checks, lastCycle>>
    /\ UNCHANGED seen
    /\ MonFrame

Init ==
    /\ InitShutdown
    /\ InitMem
    /\ state_file \in InitFiles
    /\ backup_file = NoFile
    /\ InitStore
    /\ InitMon
    /\ remote \in SUBSET Users
    /\ InitWaitVars
    /\ InitReq
    /\ InitPageVars
    /\ InitFeedVars
    /\ InitBatchVars
    /\ InitRestVars

Steps ==
    \/ StartWebServer
    \/ InitBegin
    \/ RepoOk
    \/ RepoErr
    \/ RepoRateLimited
    \/ RepoWaitEnd
    \/ InitAfterRepo
    \/ FirstPageOk
    \/ FirstPageErr
    \/ FirstPageRateLimited
    \/ FirstPageWaitEnd
    \/ BatchDone
    \/ BatchRateLimited
    \/ BatchWaitEnd
    \/ BatchCancelled
    \/ BatchDelayEnd
    \/ InitFetchDone
    \/ AfterInit
    \/ SleepEnd
    \/ CheckProcess
    \/ Cleanup

Next ==
    \/ Signal
    \/ RemoteChange
    \/ Steps

Spec == Init /\ [][Next]_vars

\* Termination is examined from a repository starred by all users, with no state
\* file or with the snapshot of all users, which takes the incremental path.
FairFiles ==
    {f \in InitFiles :
        \/ f.kind = "absent"
        \/ f.kind = "snap" /\ f.repo = Repo /\ f.total = Cardinality(Users)}

InitFair ==
    /\ Init
    /\ state_file \in FairFiles
    /\ remote = Users

\* Every step of the program that can be taken is taken in the end, and every
\* request in flight is answered.
FairSpec == InitFair /\ [][Next]_vars /\ WF_vars(Steps)

\* ---------------------------------- SpecWait: _wait_with_interrupt_check
Min(a, b) == IF a <= b THEN a ELSE b

\* check_interval = min(1.0, delay)
CheckIntervalWhole(delay) == delay
CheckInterval(delay) == Min(TicksPerSecond, delay)

\* wait_time = min(check_interval, delay - elapsed)
WaitTime(delay, elapsed) == Min(CheckInterval(delay), delay - elapsed)

WtFrame ==
    UNCHANGED <<is_shutting_down, memVars, diskVars, storeVars, monVars, reqVars, pageVars,
                feedVars, batchVars, restVars>>

\* The call, with its delay.
WtCall ==
    /\ w_pc = "idle"
    /\ \E d \in 0..MaxDelay : w_delay' = d
    /\ w_elapsed' = 0
    /\ w_pc' = "test"
    /\ UNCHANGED <<kill_now, w_sleep, w_age>>
    /\ WtFrame

\* while elapsed < delay: if self.should_exit(): return False; else sleep.
WtTest ==
    /\ w_pc = "test"
    /\ IF w_elapsed < w_delay
       THEN IF ShouldExit
            THEN w_pc' = "false" /\ UNCHANGED w_sleep
            ELSE w_pc' = "sleep" /\ w_sleep' = WaitTime(w_delay, w_elapsed)
       ELSE w_pc' = "true" /\ UNCHANGED w_sleep
    /\ UNCHANGED <<kill_now, w_delay, w_elapsed, w_age>>
    /\ WtFrame

\* One tick of the clock passes while asyncio.sleep is pending.
WtTick ==
    /\ w_pc = "sleep"
    /\ w_sleep > 0
    /\ w_sleep' = w_sleep - 1
    /\ w_age' = (IF w_age >= 0 THEN w_age + 1 ELSE w_age)
    /\ UNCHANGED <<kill_now, w_pc, w_delay, w_elapsed>>
    /\ WtFrame

\* asyncio.sleep returns: elapsed += wait_time
WtWake ==
    /\ w_pc = "sleep"
    /\ w_sleep = 0
    /\ w_elapsed' = w_elapsed + WaitTime(w_delay, w_elapsed)
    /\ w_pc' = "test"
    /\ UNCHANGED <<kill_now, w_delay, w_sleep, w_age>>
    /\ WtFrame

\* A termination signal is delivered; the clock of the claim starts if a wait
\* is in progress.
WtSignal ==
    /\ kill_now' = ExitGracefully(kill_now)
    /\ w_age' = (IF ~kill_now /\ w_pc \in {"test", "sleep"} THEN 0 ELSE w_age)
    /\ UNCHANGED <<w_pc, w_delay, w_elapsed, w_sleep>>
    /\ WtFrame

InitWait ==
    /\ InitShutdown
    /\ InitMem
    /\ state_file = NoFile
    /\ backup_file = NoFile
    /\ InitStore
    /\ InitMon
    /\ remote = {}
    /\ InitWaitVars
    /\ InitReq
    /\ InitPageVars
    /\ InitFeedVars
    /\ InitBatchVars
    /\ InitRestVars

NextWait ==
    \/ WtCall
    \/ WtTest
    \/ WtTick
    \/ WtWake
    \/ WtSignal

SpecWait == InitWait /\ [][NextWait]_vars

\* ----------------------------------------------------- claims: MonitorLoop
\* C1: in a completed check cycle the logins reported as added are the fetched
\* ones that were not members, the logins reported as removed are the members
\* that were not fetched, and both sets are empty when the two sets are equal.
C1_DiffIsSetDifference ==
    lastCycle.kind = "check" =>
        /\ lastCycle.added = lastCycle.fetched \ lastCycle.prev
        /\ lastCycle.removed = lastCycle.prev \ lastCycle.fetched
        /\ lastCycle.prev = lastCycle.fetched =>
              (lastCycle.added = {} /\ lastCycle.removed = {})

C1_Witness ==
    /\ lastCycle.kind = "check"
    /\ lastCycle.added # {}
    /\ lastCycle.removed # {}
    /\ pc = "sleep"

\* C2: after a completed cycle (the full fetch of initialization, or a check)
\* the members are exactly the fetched logins and every member has an info entry.
C2_MembersAreFetched ==
    lastCycle.kind \in {"init", "check"} =>
        /\ current_stargazers = lastCycle.fetched
        /\ current_stargazers \subseteq DOMAIN stargazers_info

C2_Witness ==
    /\ lastCycle.kind = "init"
    /\ current_stargazers # {}
    /\ pc = "sleep"

\* The state file gives load_state no history.
MissFile(f) == f.kind \in {"absent", "corrupt"} \/ f.repo # Repo

\* C5: load_state reports no history, and leaves the memory alone, when the file
\* is absent, unreadable or of another repository; initialization then goes on
\* to the full fetch and never to the incremental check.
C5_NoHistoryIsFirstRun ==
    [][/\ (pc = "init" /\ pc' = "init_repo" /\ MissFile(state_file)) =>
              (~has_history' /\ memVars' = memVars)
       /\ (pc = "init_repo" /\ ~has_history) => pc' # "init_check"
       /\ (pc = "init_repo" /\ pc' # pc /\ ~has_history /\ repoReq = "ok"
              /\ ~ShouldExit) =>
              (pc' = "init_fetch" /\ fpc' = "first")]_vars

C5_Witness ==
    /\ pc = "init_fetch"
    /\ ~has_history
    /\ state_file.kind = "snap"
    /\ state_file.repo = OtherRepo

\* C9: once should_exit is true it stays true.
C9_ShouldExitMonotonic == [][ShouldExit => ShouldExit']_vars

C9_Witness == kill_now /\ is_shutting_down /\ pc = "stopped"

\* C10: once the flag is set the monitor reaches Stopped, with the session
\* closed and the final save made.
C10_FlagLeadsToStopped ==
    kill_now ~> (pc = "stopped" /\ session = "none" /\ finalSave # "none")

C10_Witness ==
    /\ kill_now
    /\ pc = "stopped"
    /\ session = "none"
    /\ finalSave # "none"
    /\ checks > 0

\* ---------------------------------------------------------- claims: waits
\* C8: a wait during which the flag is set returns at most one second after the
\* flag was set, however long its delay is.
C8_ReturnsWithinASecond == w_age <= TicksPerSecond

C8_Witness ==
    /\ w_pc = "false"
    /\ w_age = TicksPerSecond
    /\ w_delay - w_elapsed > TicksPerSecond

\* ------------------------------------------- SpecRequest: _make_request
Max(a, b) == IF a >= b THEN a ELSE b

\* int(current_time): the clock reading, a float, truncated to seconds
IntOfTime(t) == t \div TicksPerSecond

\* wait_time = max(1, min(int(reset_time) - int(current_time), 3600))
RateLimitWaitUnclamped(reset, now) == reset - IntOfTime(now)
RateLimitWait(reset, now) ==
    Max(MinWait, Min(reset - IntOfTime(now), MaxWait))

\* The X-RateLimit-Reset values a response can carry at clock reading now:
\* around now, and around one hour later.
ResetTimes(now) ==
    {t \in {IntOfTime(now) + d : d \in (-MaxSkew)..MaxSkew}
           \cup {IntOfTime(now) + MaxWait + d : d \in (-MaxSkew)..MaxSkew} :
        t >= 0}

\* A response: its status, whether its text contains 'rate limit', and its
\* X-RateLimit-Reset header (-1: the header is absent).
Responses(now) ==
    [status : {200, 404}, rate_limit : {FALSE}, reset : {-1}]
    \cup [status : {403}, rate_limit : BOOLEAN, reset : {-1} \cup ResetTimes(now)]

\* What _make_request does with a response: wait and retry, raise, or return.
ClassifyAnyForbidden(resp) ==
    IF resp.status = 403 THEN "retry"
    ELSE IF resp.status >= 400 THEN "error" ELSE "ok"
Classify(resp) ==
    IF resp.status = 403 /\ resp.rate_limit /\ resp.reset # -1 THEN "retry"
    ELSE IF resp.status >= 400 THEN "error" ELSE "ok"

RqFrame ==
    UNCHANGED <<is_shutting_down, memVars, diskVars, storeVars, monVars, waitVars,
                pageVars, feedVars, batchVars, restVars>>

\* The caller calls _make_request.
RqCall ==
    /\ r_pc = "idle"
    /\ r_pc' = "entry"
    /\ UNCHANGED <<kill_now, r_depth, r_sends, r_resp, r_now, r_wait, r_out>>
    /\ RqFrame

\* if self.should_exit(): raise asyncio.CancelledError
RqEntry ==
    /\ r_pc = "entry"
    /\ IF ShouldExit
       THEN r_pc' = "returned" /\ r_out' = "cancelled"
       ELSE r_pc' = "send" /\ UNCHANGED r_out
    /\ UNCHANGED <<kill_now, r_depth, r_sends, r_resp, r_now, r_wait>>
    /\ RqFrame

\* self.session.get(url, params=params)
RqSend ==
    /\ r_pc = "send"
    /\ r_sends' = r_sends + 1
    /\ r_pc' = "inflight"
    /\ UNCHANGED <<kill_now, r_depth, r_resp, r_now, r_wait, r_out>>
    /\ RqFrame

\* A response arrives. A rate-limited one with a reset time starts the wait;
\* raise_for_status raises on the other failures; otherwise the body is returned.
RqResponse ==
    /\ r_pc = "inflight"
    /\ \E now \in 0..MaxNow :
         \E resp \in Responses(now) :
            /\ Classify(resp) = "retry" => r_depth < MaxRetries
            /\ r_resp' = resp
            /\ CASE Classify(resp) = "retry" ->
                       /\ r_now' = now
                       /\ r_wait' = RateLimitWait(resp.reset, now)
                       /\ r_pc' = "wait"
                       /\ UNCHANGED r_out
                 [] Classify(resp) = "error" ->
                       /\ r_pc' = "returned"
                       /\ r_out' = "error"
                       /\ UNCHANGED <<r_now, r_wait>>
                 [] OTHER ->
                       /\ r_pc' = "returned"
                       /\ r_out' = "ok"
                       /\ UNCHANGED <<r_now, r_wait>>
    /\ UNCHANGED <<kill_now, r_depth, r_sends>>
    /\ RqFrame

\* The request fails without a response (aiohttp.ClientError): it is raised.
RqFail ==
    /\ r_pc = "inflight"
    /\ r_pc' = "returned"
    /\ r_out' = "error"
    /\ UNCHANGED <<kill_now, r_depth, r_sends, r_resp, r_now, r_wait>>
    /\ RqFrame

\* _wait_with_interrupt_check(wait_time) returns. False (the flag was seen at a
\* poll): CancelledError is raised. True: the call calls itself. A flag set
\* after the last poll lets the wait return True.
RqWaitEnd ==
    /\ r_pc = "wait"
    /\ \/ /\ ShouldExit
          /\ r_pc' = "returned"
          /\ r_out' = "cancelled"
          /\ UNCHANGED r_depth
       \/ /\ r_pc' = "entry"
          /\ r_depth' = r_depth + 1
          /\ UNCHANGED r_out
    /\ UNCHANGED <<kill_now, r_sends, r_resp, r_now, r_wait>>
    /\ RqFrame

\* A termination signal is delivered.
RqSignal ==
    /\ r_pc # "returned"
    /\ kill_now' = ExitGracefully(kill_now)
    /\ UNCHANGED reqVars
    /\ RqFrame

InitRequest ==
    /\ InitShutdown
    /\ InitMem
    /\ state_file = NoFile
    /\ backup_file = NoFile
    /\ InitStore
    /\ InitMon
    /\ remote = {}
    /\ InitWaitVars
    /\ InitReq
    /\ InitPageVars
    /\ InitFeedVars
    /\ InitBatchVars
    /\ InitRestVars

NextRequest ==
    \/ RqCall
    \/ RqEntry
    \/ RqSend
    \/ RqResponse
    \/ RqFail
    \/ RqWaitEnd
    \/ RqSignal

SpecRequest == InitRequest /\ [][NextRequest]_vars

\* ------------------------------------------------- claims: _make_request
\* C11: the wait computed from a rate-limited response lies between 1 and 3600
\* seconds, whatever the reset time and the clock are.
C11_WaitIsClamped ==
    r_pc = "wait" => (MinWait <= r_wait /\ r_wait <= MaxWait)

C11_Witness ==
    /\ r_pc = "wait"
    /\ r_resp.reset < IntOfTime(r_now)
    /\ r_wait = MinWait

\* C12 as stated: one call sends the request at most twice before it returns.
C12_AtMostTwoSends == r_sends <= 2

\* C12 amended: every invocation sends the request once, and calls itself only
\* after a wait that followed a forbidden rate-limit response with a reset time.
C12_OneSendPerInvocation ==
    /\ r_depth <= r_sends
    /\ r_sends <= r_depth + 1
    /\ r_pc = "wait" =>
          (r_resp.status = 403 /\ r_resp.rate_limit /\ r_resp.reset # -1)

C12_Witness ==
    /\ r_pc = "returned"
    /\ r_out = "ok"
    /\ r_sends = 3

\* C13: with the flag set during the rate-limit wait, the request is not sent
\* again and the call ends cancelled.
C13_CancelledInWait ==
    [][(kill_now /\ r_pc \in {"wait", "entry"} /\ r_wait > 0) =>
          /\ r_sends' = r_sends
          /\ r_pc' \in {"wait", "entry", "returned"}
          /\ r_pc' = "returned" => r_out' = "cancelled"]_vars

C13_Witness ==
    /\ kill_now
    /\ r_pc = "returned"
    /\ r_out = "cancelled"
    /\ r_wait > 0
    /\ r_sends = 1

\* ------------------------------------------------------- claims: cycles
\* C14: a check cycle whose fetch or whose total query failed changes neither
\* the memory nor the files, reports nothing, and the loop sleeps again.
C14_FailedCheckChangesNothing ==
    [][(pc \in {"check", "init_check"} /\ pc' # pc
          /\ (fpc = "raised" \/ repoReq = "err")) =>
          /\ memVars' = memVars
          /\ diskVars' = diskVars
          /\ lastCycle' = lastCycle
          /\ lastCycle.kind = "none"
          /\ pc = "check" => pc' = "sleep"]_vars

C14_Witness ==
    /\ pc = "sleep"
    /\ checks > 0
    /\ lastCycle.kind = "none"
    /\ ~kill_now
    /\ current_stargazers # {}
    /\ current_stargazers # remote

\* C15: an error in a cycle, the initialization included, leaves the memory as
\* it was and does not end the monitor.
C15_FailedCycleGoesOn ==
    [][(pc \in {"init_repo", "init_fetch", "init_check", "check"} /\ pc' # pc
          /\ (fpc = "raised" \/ repoReq = "err")) =>
          /\ memVars' = memVars
          /\ pc' # "finally"]_vars

\* C18: the info dictionary has a key for every login fetched by a completed
\* cycle of the run, the logins removed since included.
C18_InfoCoversSeen == seen \subseteq DOMAIN stargazers_info

C18_Witness ==
    /\ lastCycle.kind = "check"
    /\ pc = "sleep"
    /\ seen \ current_stargazers # {}

\* C19: no step removes a key of the info dictionary.
C19_InfoKeysNeverRemoved ==
    [][DOMAIN stargazers_info \subseteq DOMAIN stargazers_info']_vars

CyclePcs == {"init_repo", "init_fetch", "init_check", "check"}

\* C20: requests are in flight only inside a cycle; a check is processed, and
\* left, only when both of its requests have ended, and it changes the memory
\* and the files only when both succeeded; the next check starts from the sleep
\* with no request left.
C20_OneCycleAtATime ==
    /\ []((fpc # "none" \/ repoReq # "none") => pc \in CyclePcs)
    /\ [][/\ (pc \in {"check", "init_check"} /\ pc' # pc) =>
                 /\ fpc \in {"done", "raised"}
                 /\ repoReq \in {"ok", "err", "cancelled"}
          /\ (pc \in {"check", "init_check"}
                /\ (memVars' # memVars \/ diskVars' # diskVars)) =>
                 (fpc = "done" /\ repoReq = "ok")
          /\ (pc' = "check" /\ pc # "check") =>
                 (pc = "sleep" /\ fpc = "none" /\ repoReq = "none")]_vars

C20_Witness ==
    /\ pc = "check"
    /\ fpc = "done"
    /\ repoReq \in {"sent", "wait"}
    /\ fetched # current_stargazers

\* --------------------------------------- SpecPages: get_all_stargazers
\* The remote list is items 1..g_n; a run <<lo, hi>> stands for the items
\* lo..hi in that order. What the request of page p returns:
PageItems(p, n) == <<(p - 1) * PerPage + 1, Min(p * PerPage, n)>>

RunLen(run) == IF run[2] >= run[1] THEN run[2] - run[1] + 1 ELSE 0

\* stargazers.extend(result)
Extend(list, run) == IF RunLen(run) > 0 THEN Append(list, run) ELSE list

\* page += max_concurrent
NextBatchPageByOne(page) == page + 1
NextBatchPage(page) == page + MaxConcurrent

\* The pages of the batch that starts at page.
BatchPages(page) == page..(page + MaxConcurrent - 1)

\* The loop over batch_results, from the result of page p on: a failed element
\* is skipped, a result with data is appended, a short one ends the fetch.
\* acc is [list, has_data, short].
RECURSIVE ProcessBatchStopsAtFailure(_, _, _, _, _)
ProcessBatchStopsAtFailure(p, last, n, failed, acc) ==
    IF p > last THEN acc
    ELSE IF p \in failed THEN acc
    ELSE IF RunLen(PageItems(p, n)) = 0
         THEN ProcessBatchStopsAtFailure(p + 1, last, n, failed, acc)
    ELSE IF RunLen(PageItems(p, n)) < PerPage
         THEN [list |-> Extend(acc.list, PageItems(p, n)), has_data |-> TRUE,
               short |-> TRUE]
    ELSE ProcessBatchStopsAtFailure(p + 1, last, n, failed,
            [list |-> Extend(acc.list, PageItems(p, n)), has_data |-> TRUE,
             short |-> FALSE])

RECURSIVE ProcessBatchCountsFailures(_, _, _, _, _)
ProcessBatchCountsFailures(p, last, n, failed, acc) ==
    IF p > last THEN acc
    ELSE IF p \in failed
         THEN ProcessBatchCountsFailures(p + 1, last, n, failed,
                 [acc EXCEPT !.has_data = TRUE])
    ELSE IF RunLen(PageItems(p, n)) = 0
         THEN ProcessBatchCountsFailures(p + 1, last, n, failed, acc)
    ELSE IF RunLen(PageItems(p, n)) < PerPage
         THEN [list |-> Extend(acc.list, PageItems(p, n)), has_data |-> TRUE,
               short |-> TRUE]
    ELSE ProcessBatchCountsFailures(p + 1, last, n, failed,
            [list |-> Extend(acc.list, PageItems(p, n)), has_data |-> TRUE,
             short |-> FALSE])

RECURSIVE ProcessBatch(_, _, _, _, _)
ProcessBatch(p, last, n, failed, acc) ==
    IF p > last THEN acc
    ELSE IF p \in failed THEN ProcessBatch(p + 1, last, n, failed, acc)
    ELSE IF RunLen(PageItems(p, n)) = 0
         THEN ProcessBatch(p + 1, last, n, failed, acc)
    ELSE IF RunLen(PageItems(p, n)) < PerPage
         THEN [list |-> Extend(acc.list, PageItems(p, n)), has_data |-> TRUE,
               short |-> TRUE]
    ELSE ProcessBatch(p + 1, last, n, failed,
            [list |-> Extend(acc.list, PageItems(p, n)), has_data |-> TRUE,
             short |-> FALSE])

PgFrame ==
    UNCHANGED <<shutdownVars, memVars, diskVars, storeVars, monVars, waitVars,
                reqVars, feedVars, batchVars, restVars>>

\* get_all_stargazers is called; no exit is requested.
PgCall ==
    /\ g_pc = "idle"
    /\ ~ShouldExit
    /\ g_pc' = "first"
    /\ UNCHANGED <<g_n, g_page, g_result, g_requests, g_failed>>
    /\ PgFrame

\* The first page: empty or short, the fetch is over; full, the batches start.
PgFirstPage ==
    /\ g_pc = "first"
    /\ g_requests' = g_requests + 1
    /\ g_result' = Extend(g_result, PageItems(1, g_n))
    /\ IF RunLen(PageItems(1, g_n)) < PerPage
       THEN g_pc' = "done" /\ UNCHANGED g_page
       ELSE g_pc' = "batch" /\ g_page' = 2
    /\ UNCHANGED <<g_n, g_failed>>
    /\ PgFrame

\* The request of the first page fails: the error leaves get_all_stargazers.
PgFirstPageFails ==
    /\ g_pc = "first"
    /\ Cardinality(g_failed) < MaxFailures
    /\ g_requests' = g_requests + 1
    /\ g_failed' = g_failed \cup {1}
    /\ g_pc' = "raised"
    /\ UNCHANGED <<g_n, g_page, g_result>>
    /\ PgFrame

\* One batch: max_concurrent requests are gathered, some of them may have
\* failed, and the results are gone through in page order.
PgBatch ==
    /\ g_pc = "batch"
    /\ \E F \in SUBSET BatchPages(g_page) :
         /\ Cardinality(g_failed \cup F) <= MaxFailures
         /\ g_failed' = g_failed \cup F
         /\ LET end == ProcessBatch(g_page, g_page + MaxConcurrent - 1, g_n, F,
                          [list |-> g_result, has_data |-> FALSE, short |-> FALSE])
            IN /\ g_result' = end.list
               /\ IF end.short \/ ~end.has_data
                  THEN g_pc' = "done" /\ UNCHANGED g_page
                  ELSE g_pc' = "delay" /\ g_page' = NextBatchPage(g_page)
    /\ g_requests' = g_requests + MaxConcurrent
    /\ UNCHANGED g_n
    /\ PgFrame

\* _wait_with_interrupt_check(0.5) returns True and the loop goes round.
PgDelayEnd ==
    /\ g_pc = "delay"
    /\ g_pc' = "batch"
    /\ UNCHANGED <<g_n, g_page, g_result, g_requests, g_failed>>
    /\ PgFrame

InitPages ==
    /\ InitShutdown
    /\ InitMem
    /\ state_file = NoFile
    /\ backup_file = NoFile
    /\ InitStore
    /\ InitMon
    /\ remote = {}
    /\ InitWaitVars
    /\ InitReq
    /\ g_pc = "idle"
    /\ g_n \in 0..MaxItems
    /\ g_page = 1
    /\ g_result = <<>>
    /\ g_requests = 0
    /\ g_failed = {}
    /\ InitFeedVars
    /\ InitBatchVars
    /\ InitRestVars

NextPages ==
    \/ PgCall
    \/ PgFirstPage
    \/ PgFirstPageFails
    \/ PgBatch
    \/ PgDelayEnd

\* Every request is answered and the event loop runs the fetch on.
SpecPages == InitPages /\ [][NextPages]_vars /\ WF_vars(NextPages)

\* ------------------------------------------- claims: get_all_stargazers
\* The items of a list of runs, in order.
RECURSIVE ItemsOf(_)
ItemsOf(list) ==
    IF list = <<>> THEN <<>>
    ELSE [i \in 1..RunLen(Head(list)) |-> Head(list)[1] + i - 1] \o ItemsOf(Tail(list))

RunsOf(list) == {list[i] : i \in DOMAIN list}

\* C16: with no failed request the fetch ends, and it returns every item of the
\* remote list exactly once; a first page shorter than the page size is the
\* only request made.
C16_FetchReturnsAll ==
    /\ []((g_pc = "done" /\ g_failed = {}) =>
            /\ Len(ItemsOf(g_result)) = g_n
            /\ {ItemsOf(g_result)[i] : i \in 1..Len(ItemsOf(g_result))} = 1..g_n
            /\ g_n < PerPage => g_requests = 1)
    /\ <>(g_pc \in {"done", "raised"})

C16_Witness ==
    /\ g_pc = "done"
    /\ g_failed = {}
    /\ g_n = (MaxConcurrent + 1) * PerPage
    /\ g_requests = 1 + 2 * MaxConcurrent

\* C17: a batch in which some requests fail and the others return full pages
\* raises nothing, appends the items of every successful page and of no failed
\* one, and the fetch goes on to the next batch.
C17_FailedPagesAreSkipped ==
    [][(g_pc = "batch" /\ g_pc' # "batch"
          /\ g_failed' # g_failed
          /\ g_failed' \ g_failed # BatchPages(g_page)
          /\ \A p \in BatchPages(g_page) \ g_failed' :
                RunLen(PageItems(p, g_n)) = PerPage) =>
          /\ g_pc' = "delay"
          /\ g_page' = g_page + MaxConcurrent
          /\ \A p \in BatchPages(g_page) \ g_failed' :
                PageItems(p, g_n) \in RunsOf(g_result')
          /\ \A p \in g_failed' : PageItems(p, g_n) \notin RunsOf(g_result')
          /\ Len(g_result') =
                Len(g_result) + Cardinality(BatchPages(g_page) \ g_failed')]_vars

C17_Witness ==
    /\ g_pc = "delay"
    /\ Cardinality(g_failed) = 2
    /\ g_page = 2 + MaxConcurrent
    /\ Len(g_result) = MaxConcurrent - 1

\* ------------------------------------------------------------ when is it saved
\* C21: the state file is written only by a completed fetch or check cycle: no
\* step changes the files on disk in a run in which no fetch has completed
\* (no cycle has left a record and no check cycle was ever started).
C21_NoSaveBeforeAnyFetch ==
    [][(diskVars' # diskVars) => (lastCycle' # NoCycle \/ checks' > 0)]_vars

\* ------------------------------------------------- activity feed and StarStats
\* SpecFeed: the processing part of check_star_changes with the events it
\* emits, add_activity, StarStats and the trend query of the web interface.
\* Time is counted in ticks, DayTicks to a calendar day.
max_activities == 50
DayTicks == 2
MaxClock == 3
MaxDays == 2
MaxCalls == 3
MaxQueries == 2

\* now.strftime('%Y-%m-%d'): the calendar day an instant lies in.
DateKey(t) == t \div DayTicks

\* now.strftime('%Y-%m-%d-%H'): the clock counts hours, DayTicks to the day.
HourKey(t) == t

\* A read of the defaultdict daily_stats: the entry, or the zero entry, which
\* the read also stores.
ZeroDay == [gained |-> 0, lost |-> 0]
DayStat(ds, k) == IF k \in DOMAIN ds THEN ds[k] ELSE ZeroDay
Touch(ds, k) == [d \in (DOMAIN ds) \cup {k} |-> DayStat(ds, d)]

StatsUpdateNoHourly(st, action, now) ==
    LET k == DateKey(now)
    IN CASE action = "gain" ->
              [st EXCEPT !.ds = [Touch(st.ds, k) EXCEPT ![k].gained = @ + 1],
                         !.tg = @ + 1]
         [] action = "lost" ->
              [st EXCEPT !.ds = [Touch(st.ds, k) EXCEPT ![k].lost = @ + 1],
                         !.tl = @ + 1]
         [] OTHER -> st

\* StarStats.update with count 1, on the feed state st.
StatsUpdate(st, action, now) ==
    LET k == DateKey(now)
        h == HourKey(now)
    IN CASE action = "gain" ->
              [st EXCEPT !.ds = [Touch(st.ds, k) EXCEPT ![k].gained = @ + 1],
                         !.hs = [Touch(st.hs, h) EXCEPT ![h].gained = @ + 1],
                         !.tg = @ + 1]
         [] action = "lost" ->
              [st EXCEPT !.ds = [Touch(st.ds, k) EXCEPT ![k].lost = @ + 1],
                         !.hs = [Touch(st.hs, h) EXCEPT ![h].lost = @ + 1],
                         !.tl = @ + 1]
         [] OTHER -> st

\* The while loop of get_trend_data from current_date to end_date.
RECURSIVE TrendLoop(_, _, _, _)
TrendLoop(ds, current_date, end_date, out) ==
    IF current_date <= end_date
    THEN LET date_key == DateKey(current_date)
         IN TrendLoop(Touch(ds, date_key), current_date + DayTicks, end_date,
                      [labels |-> Append(out.labels, date_key),
                       gained |-> Append(out.gained, DayStat(ds, date_key).gained),
                       lost |-> Append(out.lost, DayStat(ds, date_key).lost)])
    ELSE [stats |-> ds, data |-> out]

\* StarStats.get_trend_data
GetTrendData(ds, now, days) == TrendLoop(ds, now - days * DayTicks, now, NoTrend)

\* The days parameter of the query string: text that int() accepts, or not.
TrendArgs ==
    {[numeric |-> TRUE, value |-> d] : d \in (0 - MaxDays)..MaxDays}
    \cup {[numeric |-> FALSE, value |-> 0]}

\* get_cached_stats: the lru_cache, then int(time_range), then get_trend_data.
\* A call that raises stores nothing.
GetCachedStats(cache, ds, now, arg) ==
    IF arg \in DOMAIN cache
    THEN [raised |-> FALSE, data |-> cache[arg], cache |-> cache, stats |-> ds,
          hit |-> TRUE]
    ELSE IF ~arg.numeric
    THEN [raised |-> TRUE, data |-> NoTrend, cache |-> cache, stats |-> ds,
          hit |-> FALSE]
    ELSE LET r == GetTrendData(ds, now, arg.value)
         IN [raised |-> FALSE, data |-> r.data,
             cache |-> [a \in (DOMAIN cache) \cup {arg} |->
                           IF a = arg THEN r.data ELSE cache[a]],
             stats |-> r.stats, hit |-> FALSE]

\* What add_activity looks for in the message.
StatsAction(message) ==
    CASE message.text = "new_star" -> "gain"
      [] message.text = "unstar" -> "lost"
      [] OTHER -> "none"

TakeOldest(s, n) == SubSeq(s, Len(s) - Min(Len(s), n) + 1, Len(s))
\* The slice [:n] of a list.
Take(s, n) == SubSeq(s, 1, Min(Len(s), n))

\* add_activity on the feed state st.
AddActivity(st, message, user_info, now) ==
    StatsUpdate([st EXCEPT !.ra = Take(<<[message |-> message, time |-> now,
                                          user_info |-> user_info]>> \o @,
                                       max_activities)],
                StatsAction(message), now)

\* The user_info of an event: the entry of stargazers_info, whose html_url came
\* from the fetched item, or the one check_star_changes builds from the login.
NoUserInfo == [keys |-> {}, url |-> "none"]
RetainedInfo(keys) == [keys |-> keys, url |-> "item"]
FallbackInfo == [keys |-> {"html_url", "avatar_url", "login"}, url |-> "login"]
RemovedInfoAlwaysFallback(info, u) == FallbackInfo
RemovedInfo(info, u) ==
    IF u \in DOMAIN info /\ info[u] # {} THEN RetainedInfo(info[u]) ELSE FallbackInfo

\* The orders in which a for loop can run through a set.
Orders(S) ==
    {o \in [1..Cardinality(S) -> S] : \A i, j \in 1..Cardinality(S) : o[i] = o[j] => i = j}

\* The add_activity calls of the two loops of check_star_changes, in order.
AddedCalls(order) ==
    [i \in 1..Len(order) |->
        [message |-> [text |-> "new_star", user |-> order[i]],
         user_info |-> RetainedInfo(InfoCheck)]]
RemovedCalls(order, info) ==
    [i \in 1..Len(order) |->
        [message |-> [text |-> "unstar", user |-> order[i]],
         user_info |-> RemovedInfo(info, order[i])]]

RECURSIVE EmitAll(_, _, _)
EmitAll(st, calls, now) ==
    IF calls = <<>> THEN st
    ELSE EmitAll(AddActivity(st, Head(calls).message, Head(calls).user_info, now),
                 Tail(calls), now)

CurFeed == [ra |-> recent_activities, ds |-> daily_stats, hs |-> hourly_stats,
            tg |-> total_gained, tl |-> total_lost]

SetFeed(st) ==
    /\ recent_activities' = st.ra
    /\ daily_stats' = st.ds
    /\ hourly_stats' = st.hs
    /\ total_gained' = st.tg
    /\ total_lost' = st.tl

FdFrame ==
    UNCHANGED <<shutdownVars, storeVars, monVars, waitVars, reqVars, pageVars, batchVars, restVars>>

\* check_star_changes from the diff on, both requests having succeeded; the
\* repository reports as many stars as the list has.
FdCycle ==
    \E new \in SUBSET Users :
    \E oa \in Orders(ReportedAdded(new, current_stargazers)),
       or \in Orders(ReportedRemoved(new, current_stargazers)) :
       LET calls == AddedCalls(oa) \o RemovedCalls(or, stargazers_info)
           after == InfoAfterCheck(stargazers_info, new, current_stargazers)
       IN /\ f_calls + Len(calls) <= MaxCalls
          /\ SetFeed(EmitAll(CurFeed, calls, f_now))
          /\ current_stargazers' = new
          /\ stargazers_info' = after
          /\ total_stars' = Cardinality(new)
          /\ SaveFiles(Mem(new, after, Cardinality(new)), "none", TRUE)
          /\ f_calls' = f_calls + Len(calls)
          /\ f_last' = "cycle"
          /\ UNCHANGED <<f_now, f_queries, f_cache, f_resp>>
          /\ FdFrame

\* add_activity of start_monitoring: a message about the monitor itself.
FdNote ==
    /\ f_calls < MaxCalls
    /\ \E text \in {"started", "stopped"} :
          /\ SetFeed(AddActivity(CurFeed, [text |-> text, user |-> ""], NoUserInfo, f_now))
          /\ f_last' = text
    /\ f_calls' = f_calls + 1
    /\ UNCHANGED <<memVars, diskVars, f_now, f_queries, f_cache, f_resp>>
    /\ FdFrame

InitFeed ==
    /\ InitShutdown
    /\ current_stargazers \in SUBSET Users
    /\ stargazers_info \in {EmptyInfo, InfoOf(current_stargazers, InfoCheck)}
    /\ total_stars = Cardinality(current_stargazers)
    /\ state_file = NoFile
    /\ backup_file = NoFile
    /\ InitStore
    /\ InitMon
    /\ remote = {}
    /\ InitWaitVars
    /\ InitReq
    /\ InitPageVars
    /\ InitFeedVars
    /\ InitBatchVars
    /\ InitRestVars

NextFeed ==
    \/ FdCycle
    \/ FdNote

SpecFeed == InitFeed /\ [][NextFeed]_vars

\* ------------------------------------------------------------ trend queries
\* SpecTrend: StarStats.update as the days pass, and the trend query of the
\* web interface.
TrFrame ==
    UNCHANGED <<shutdownVars, memVars, diskVars, storeVars, monVars, waitVars, reqVars,
                pageVars, batchVars, restVars, recent_activities>>

\* StarStats.update('gain') or ('lost')
TrUpdate ==
    /\ f_calls < MaxCalls
    /\ \E action \in {"gain", "lost"} :
          LET st == StatsUpdate(CurFeed, action, f_now)
          IN /\ daily_stats' = st.ds
             /\ hourly_stats' = st.hs
             /\ total_gained' = st.tg
             /\ total_lost' = st.tl
             /\ f_last' = action
    /\ f_calls' = f_calls + 1
    /\ UNCHANGED <<f_now, f_queries, f_cache, f_resp>>
    /\ TrFrame

\* Time passes.
TrTick ==
    /\ f_now < MaxClock
    /\ f_now' = f_now + 1
    /\ f_last' = "tick"
    /\ UNCHANGED <<daily_stats, hourly_stats, total_gained, total_lost, f_calls, f_queries, f_cache,
                   f_resp>>
    /\ TrFrame

\* handle_trend: GET /api/trend?days=...
TrTrend ==
    /\ f_queries < MaxQueries
    /\ \E arg \in TrendArgs :
         LET r == GetCachedStats(f_cache, daily_stats, f_now, arg)
         IN /\ f_resp' = [status |-> IF r.raised THEN "error" ELSE "ok",
                          days |-> arg.value, data |-> r.data, hit |-> r.hit]
            /\ f_cache' = r.cache
            /\ daily_stats' = r.stats
    /\ f_queries' = f_queries + 1
    /\ f_last' = "trend"
    /\ UNCHANGED <<hourly_stats, total_gained, total_lost, f_now, f_calls>>
    /\ TrFrame

InitTrend ==
    /\ InitShutdown
    /\ InitMem
    /\ state_file = NoFile
    /\ backup_file = NoFile
    /\ InitStore
    /\ InitMon
    /\ remote = {}
    /\ InitWaitVars
    /\ InitReq
    /\ InitPageVars
    /\ InitFeedVars
    /\ InitBatchVars
    /\ InitRestVars

NextTrend ==
    \/ TrUpdate
    \/ TrTick
    \/ TrTrend

SpecTrend == InitTrend /\ [][NextTrend]_vars

\* C22: a trend query with days <= 0 is never answered with a series: it is
\* answered with an error.
C22_NonPositiveDaysRejected ==
    (f_resp.status # "none" /\ f_resp.days <= 0) => f_resp.status = "error"

\* C23: a trend computed for days > 0 has one entry for each calendar day of
\* the trailing window of `days` days: the three arrays have `days` entries,
\* the labels are consecutive days in ascending order ending today, and each
\* entry is the count recorded for its day, 0 when nothing was recorded.
C23_OneEntryPerWindowDay ==
    [][(f_queries' # f_queries /\ f_resp'.status = "ok" /\ ~f_resp'.hit
          /\ f_resp'.days > 0) =>
          LET d == f_resp'.data
          IN /\ Len(d.labels) = f_resp'.days
             /\ Len(d.gained) = Len(d.labels)
             /\ Len(d.lost) = Len(d.labels)
             /\ \A i \in 1..Len(d.labels) :
                   /\ d.labels[i] = DateKey(f_now) - (Len(d.labels) - i)
                   /\ d.gained[i] = DayStat(daily_stats, d.labels[i]).gained
                   /\ d.lost[i] = DayStat(daily_stats, d.labels[i]).lost]_vars

\* ------------------------------------------------------------ the end of a run
\* C24: Stopped is reached exactly once: whatever ends the loop (a return after
\* cancellation, cancellation during initialization, an error), cleanup then
\* runs, once: it sets is_shutting_down, closes the session and makes the final
\* save; and in Stopped nothing more is fetched, compared or saved.
C24_StoppedOnce ==
    /\ [](pc = "stopped" <=> is_shutting_down)
    /\ [](pc = "stopped" => (session # "open" /\ finalSave # "none" /\ mainEnd # "none"))
    /\ [](finalSave # "none" => pc = "stopped")
    /\ [][pc = "stopped" => UNCHANGED <<is_shutting_down, memVars, diskVars, monVars>>]_vars
    /\ (mainEnd # "none") ~> (pc = "stopped")

C24_Witness ==
    /\ pc = "stopped"
    /\ mainEnd = "return"
    /\ checks = 0
    /\ finalSave = "saved"
    /\ state_file # NoFile

\* C25: once the flag is set while the loop is in the interval sleep, the loop
\* only goes on to the finally clause and to Stopped: no check cycle starts and
\* no request is issued on the way, and Stopped is reached.
C25_SleepGoesToShutdown ==
    /\ [][(kill_now /\ pc \in {"sleep", "finally"}) =>
            /\ pc' \in {"sleep", "finally", "stopped"}
            /\ UNCHANGED <<checks, fpc, repoReq, fetched, lastCycle, memVars>>
            /\ session' # "open" \/ session = "open"]_vars
    /\ (kill_now /\ pc = "sleep") ~> (pc = "stopped")

C25_Witness ==
    /\ pc = "sleep"
    /\ kill_now
    /\ lastCycle.kind = "init"
    /\ session = "open"

C28_OneEventPerChange ==
    [][f_last' = "cycle" =>
          LET added == current_stargazers' \ current_stargazers
              removed == current_stargazers \ current_stargazers'
              k == Len(recent_activities') - Len(recent_activities)
              new == SubSeq(recent_activities', 1, k)
          IN /\ k = Cardinality(added) + Cardinality(removed)
             /\ SubSeq(recent_activities', k + 1, Len(recent_activities')) = recent_activities
             /\ \A u \in added :
                   Cardinality({i \in 1..k : new[i].message = [text |-> "new_star", user |-> u]}) = 1
             /\ \A u \in removed :
                   Cardinality({i \in 1..k : new[i].message = [text |-> "unstar", user |-> u]}) = 1
             /\ total_gained' = total_gained + Cardinality(added)
             /\ total_lost' = total_lost + Cardinality(removed)]_vars

C28_Witness ==
    /\ f_last = "cycle"
    /\ Len(recent_activities) >= 2
    /\ recent_activities[1].message.text = "unstar"
    /\ recent_activities[2].message.text = "new_star"
    /\ total_gained = 1
    /\ total_lost = 1

\* C29: the unstar event of a removed login carries the entry stargazers_info
\* holds for it, or, when there is none, the info built from the login; and
\* the removal changes nothing in stargazers_info for that login.
C29_RemovedEventInfo ==
    [][f_last' = "cycle" =>
          LET removed == current_stargazers \ current_stargazers'
              k == Len(recent_activities') - Len(recent_activities)
          IN \A u \in removed :
                /\ \E i \in 1..k :
                      /\ recent_activities'[i].message = [text |-> "unstar", user |-> u]
                      /\ recent_activities'[i].user_info =
                           IF u \in DOMAIN stargazers_info
                           THEN [keys |-> stargazers_info[u], url |-> "item"]
                           ELSE [keys |-> {"html_url", "avatar_url", "login"}, url |-> "login"]
                /\ IF u \in DOMAIN stargazers_info
                   THEN u \in DOMAIN stargazers_info' /\ stargazers_info'[u] = stargazers_info[u]
                   ELSE u \notin DOMAIN stargazers_info']_vars

C29_Witness ==
    /\ f_last = "cycle"
    /\ Len(recent_activities) >= 2
    /\ recent_activities[1].message.text = "unstar"
    /\ recent_activities[1].user_info = [keys |-> InfoCheck, url |-> "item"]
    /\ recent_activities[1].message.user \in DOMAIN stargazers_info
    /\ recent_activities[2].message.text = "unstar"
    /\ recent_activities[2].user_info.url = "login"
    /\ recent_activities[2].message.user \notin DOMAIN stargazers_info

\* ------------------------------------------------- a batch, request by request
\* SpecBatch: get_all_stargazers as in SpecPages, with the steps of
\* asyncio.gather over the batch: the tasks are created, each sends its request
\* and each request is answered or fails, in any order.
Ended == {"ok", "failed"}

\* gather(..., return_exceptions=True) returns when every task has ended.
GatherDoneAny(tasks) == \E p \in DOMAIN tasks : tasks[p] \in Ended
GatherDone(tasks) == \A p \in DOMAIN tasks : tasks[p] \in Ended

\* The elements of batch_results that are exceptions.
FailedOf(tasks) == {p \in DOMAIN tasks : tasks[p] # "ok"}

\* The requests sent and not yet answered, the one for the first page included.
InFlight ==
    Cardinality({p \in DOMAIN b_tasks : b_tasks[p] = "inflight"})
      + (IF g_pc = "first" THEN 1 ELSE 0)

BtFrame ==
    UNCHANGED <<shutdownVars, memVars, diskVars, storeVars, monVars, waitVars, reqVars,
                feedVars, restVars>>

\* The for loop that builds batch_tasks, and gather taking them on. Tasks of
\* an earlier batch that have ended are forgotten.
BtIssue ==
    /\ g_pc = "batch"
    /\ g_pc' = "gather"
    /\ b_tasks' = [p \in {q \in DOMAIN b_tasks : b_tasks[q] \notin Ended}
                           \cup BatchPages(g_page) |->
                      IF p \in BatchPages(g_page) THEN "created" ELSE b_tasks[p]]
    /\ UNCHANGED <<g_n, g_page, g_result, g_requests, g_failed>>
    /\ BtFrame

\* A task runs _make_request up to session.get: the request is sent.
BtSend ==
    /\ \E p \in DOMAIN b_tasks :
         /\ b_tasks[p] = "created"
         /\ b_tasks' = [b_tasks EXCEPT ![p] = "inflight"]
    /\ g_requests' = g_requests + 1
    /\ UNCHANGED <<g_pc, g_n, g_page, g_result, g_failed>>
    /\ BtFrame

\* A request is answered with its page, or fails.
BtAnswer ==
    /\ \E p \in DOMAIN b_tasks, end \in Ended :
         /\ b_tasks[p] = "inflight"
         /\ end = "failed" =>
               Cardinality(g_failed \cup FailedOf(b_tasks) \cup {p}) <= MaxFailures
         /\ b_tasks' = [b_tasks EXCEPT ![p] = end]
    /\ UNCHANGED <<g_pc, g_n, g_page, g_result, g_requests, g_failed>>
    /\ BtFrame

\* gather returns and the results are gone through in page order.
BtGathered ==
    /\ g_pc = "gather"
    /\ GatherDone(b_tasks)
    /\ g_failed' = g_failed \cup FailedOf(b_tasks)
    /\ LET end == ProcessBatch(g_page, g_page + MaxConcurrent - 1, g_n,
                               FailedOf(b_tasks),
                               [list |-> g_result, has_data |-> FALSE, short |-> FALSE])
       IN /\ g_result' = end.list
          /\ IF end.short \/ ~end.has_data
             THEN g_pc' = "done" /\ UNCHANGED g_page
             ELSE g_pc' = "delay" /\ g_page' = NextBatchPage(g_page)
    /\ UNCHANGED <<g_n, g_requests, b_tasks>>
    /\ BtFrame

\* Remote lists of one page, of the first page and one whole batch, and of a
\* short page in the second batch.
BatchListLengths == {PerPage, PerPage * (MaxConcurrent + 1), MaxItems}

InitBatch ==
    /\ InitShutdown
    /\ InitMem
    /\ state_file = NoFile
    /\ backup_file = NoFile
    /\ InitStore
    /\ InitMon
    /\ remote = {}
    /\ InitWaitVars
    /\ InitReq
    /\ g_pc = "idle"
    /\ g_n \in BatchListLengths
    /\ g_page = 1
    /\ g_result = <<>>
    /\ g_requests = 0
    /\ g_failed = {}
    /\ InitFeedVars
    /\ InitBatchVars
    /\ InitRestVars

NextBatch ==
    \/ PgCall
    \/ PgFirstPage
    \/ PgFirstPageFails
    \/ BtIssue
    \/ BtSend
    \/ BtAnswer
    \/ BtGathered
    \/ PgDelayEnd

SpecBatch == InitBatch /\ [][NextBatch]_vars

\* C30: at most max_concurrent (5) page requests are in flight at any time of a
\* fetch; when the delay between two batches runs every request of the batch
\* has been answered or has failed; and the requests of a batch are created
\* only when every request created before has ended.
C30_BatchesDoNotOverlap ==
    /\ [](InFlight <= MaxConcurrent)
    /\ [](g_pc \in {"delay", "batch", "done"} =>
             \A p \in DOMAIN b_tasks : b_tasks[p] \in Ended)
    /\ [][(DOMAIN b_tasks' # DOMAIN b_tasks) =>
             \A p \in DOMAIN b_tasks : b_tasks[p] \in Ended]_vars

C30_Witness ==
    /\ g_pc = "gather"
    /\ g_page = 2 + MaxConcurrent
    /\ InFlight = MaxConcurrent
    /\ g_requests = 1 + 2 * MaxConcurrent
    /\ g_failed # {}

\* ------------------------------------------------------------ the end of a fetch
\* C31: a batch in which every request failed or returned an empty page ends
\* the fetch: the list collected so far is the result, nothing is raised, and
\* no request is made afterwards.
C31_EmptyBatchEndsFetch ==
    [][/\ (g_pc = "batch" /\ g_pc' # "batch"
             /\ \A p \in BatchPages(g_page) :
                   p \in g_failed' \/ RunLen(PageItems(p, g_n)) = 0) =>
            /\ g_pc' = "done"
            /\ g_result' = g_result
            /\ g_page' = g_page
       /\ g_pc = "done" => UNCHANGED <<g_pc, g_requests, g_result>>]_vars

C31_Witness ==
    /\ g_pc = "done"
    /\ g_n = PerPage * (MaxConcurrent + 1)
    /\ g_page = 2 + MaxConcurrent
    /\ g_requests = 1 + 2 * MaxConcurrent
    /\ g_failed \cap BatchPages(g_page) # {}
    /\ Len(ItemsOf(g_result)) = g_n

\* ------------------------------------------------------------ the session
\* SpecSession: the requests of a run, each a task that enters _make_request,
\* gets the session and is answered, and cleanup closing the session when the
\* loop has ended. Sessions are numbered as they are created; 0 is None.
MaxTasks == 3

Tasks == 1..MaxTasks

\* _create_session: self.session after it, made sessions having been created.
SessionAfterCreateAlwaysNew(cur, made) == made + 1
SessionAfterCreate(cur, made) == IF cur = 0 THEN made + 1 ELSE cur

SsFrame ==
    UNCHANGED <<memVars, diskVars, storeVars, monVars, waitVars, reqVars, pageVars,
                feedVars, batchVars, stampVars>>

\* The loop starts the requests of a cycle.
SsCall ==
    /\ c_pc = "start"
    /\ c_pc' = "running"
    /\ \E T \in SUBSET Tasks :
          c_tasks' = [t \in Tasks |-> [at |-> IF t \in T THEN "entry" ELSE "idle", uses |-> 0]]
    /\ UNCHANGED <<shutdownVars, c_session, c_made, c_closed>>
    /\ SsFrame

\* A task runs _make_request up to session.get: the exit test, _create_session,
\* and the request on self.session.
SsEnter ==
    /\ \E t \in DOMAIN c_tasks :
         /\ c_tasks[t].at = "entry"
         /\ IF ShouldExit
            THEN /\ c_tasks' = [c_tasks EXCEPT ![t].at = "cancelled"]
                 /\ UNCHANGED <<c_session, c_made>>
            ELSE /\ c_session' = SessionAfterCreate(c_session, c_made)
                 /\ c_made' = (IF SessionAfterCreate(c_session, c_made) = c_session
                               THEN c_made ELSE c_made + 1)
                 /\ c_tasks' = [c_tasks EXCEPT
                                  ![t] = [at |-> "get",
                                          uses |-> SessionAfterCreate(c_session, c_made)]]
    /\ UNCHANGED <<shutdownVars, c_pc, c_closed>>
    /\ SsFrame

\* A request is answered; a later cycle may make the task's request again.
SsAnswer ==
    /\ \E t \in DOMAIN c_tasks, next \in {"done", "entry"} :
         /\ c_tasks[t].at = "get"
         /\ c_tasks' = [c_tasks EXCEPT ![t].at = next]
    /\ UNCHANGED <<shutdownVars, c_pc, c_session, c_made, c_closed>>
    /\ SsFrame

SsSignal ==
    /\ c_pc # "stopped"
    /\ kill_now' = ExitGracefully(kill_now)
    /\ UNCHANGED <<is_shutting_down, sessVars>>
    /\ SsFrame

\* Every request awaited has ended and the loop is left: cleanup sets
\* is_shutting_down and _close_session awaits session.close().
SsCleanup ==
    /\ c_pc \in {"start", "running"}
    /\ \A t \in DOMAIN c_tasks : c_tasks[t].at \notin {"entry", "get"}
    /\ is_shutting_down' = TRUE
    /\ c_pc' = (IF c_session # 0 THEN "closing" ELSE "stopped")
    /\ UNCHANGED <<kill_now, c_tasks, c_session, c_made, c_closed>>
    /\ SsFrame

\* session.close() has returned: self.session = None.
SsClosed ==
    /\ c_pc = "closing"
    /\ c_closed' = Append(c_closed, c_session)
    /\ c_session' = 0
    /\ c_pc' = "stopped"
    /\ UNCHANGED <<shutdownVars, c_tasks, c_made>>
    /\ SsFrame

InitSession ==
    /\ InitShutdown
    /\ InitMem
    /\ state_file = NoFile
    /\ backup_file = NoFile
    /\ InitStore
    /\ InitMon
    /\ remote = {}
    /\ InitWaitVars
    /\ InitReq
    /\ InitPageVars
    /\ InitFeedVars
    /\ InitBatchVars
    /\ InitRestVars

NextSession ==
    \/ SsCall
    \/ SsEnter
    \/ SsAnswer
    \/ SsSignal
    \/ SsCleanup
    \/ SsClosed

SpecSession == InitSession /\ [][NextSession]_vars

\* C32: no session exists before the first request; at most one session exists
\* at a time, and every request under way uses the one self.session holds;
\* when the run has stopped every session created has been closed, once, and
\* self.session is None; and no session is created once one has been closed.
C32_OneSession ==
    /\ [](c_pc = "start" => (c_made = 0 /\ c_session = 0))
    /\ [][c_made' # c_made =>
             \E t \in DOMAIN c_tasks :
                c_tasks[t].at = "entry" /\ c_tasks'[t].at = "get"]_vars
    /\ [](c_made - Len(c_closed) <= 1)
    /\ [](\A t \in DOMAIN c_tasks :
             c_tasks[t].at = "get" => (c_session # 0 /\ c_tasks[t].uses = c_session))
    /\ [](c_pc = "stopped" =>
             /\ c_session = 0
             /\ Len(c_closed) = c_made
             /\ \A i, j \in 1..Len(c_closed) : c_closed[i] = c_closed[j] => i = j)
    /\ [][Len(c_closed) > 0 => c_made' = c_made]_vars

C32_Witness ==
    /\ c_pc = "stopped"
    /\ c_made = 1
    /\ c_closed = <<1>>
    /\ \E t \in Tasks : c_tasks[t].at = "done" /\ c_tasks[t].uses = 1
    /\ \E t \in Tasks : c_tasks[t].at = "cancelled"

\* ------------------------------------------------------ runs with the flag only
\* CancelSpec: the runs of Spec in which nothing fails: the web server starts,
\* the state file is absent or readable, no request fails (requests may be rate
\* limited) and the final save succeeds. The flag can be set at any time.
StartWebServerOk == StartWebServer /\ pc' = "init"

CleanupSaved == Cleanup /\ finalSave' = "saved"

InitCancel == Init /\ state_file # BadFile

NextCancel ==
    \/ Signal
    \/ RemoteChange
    \/ StartWebServerOk
    \/ InitBegin
    \/ RepoOk
    \/ RepoRateLimited
    \/ RepoWaitEnd
    \/ InitAfterRepo
    \/ FirstPageOk
    \/ FirstPageRateLimited
    \/ FirstPageWaitEnd
    \/ BatchDone
    \/ BatchRateLimited
    \/ BatchWaitEnd
    \/ BatchCancelled
    \/ BatchDelayEnd
    \/ InitFetchDone
    \/ AfterInit
    \/ SleepEnd
    \/ CheckProcess
    \/ CleanupSaved

CancelSpec == InitCancel /\ [][NextCancel]_vars

\* C33: in a run whose only abnormal event is the flag being set, nothing is
\* logged as an error: start_monitoring never ends in its except Exception
\* branch, which logs the error it caught.
C33_CancellationLogsNoError == mainEnd # "error"

\* ---------------------------------------------------------------------------
\* last_check_time: the stamp save_state writes (lines 1021, 1039), what
\* load_state reads back (line 1001), and the saves that write it: the save
\* ending initialization or a check cycle (1237, 1348, 1352) and the final
\* save of cleanup (1381).  f_now is the wall clock and f_last the step taken.
\* ---------------------------------------------------------------------------
MaxStamp == 6

\* save_state, lines 1016-1050: the stamp is datetime.now() whatever the
\* caller; a failed write restores the backup and leaves both stamps alone.
SaveStamp(ok, now, mem, disk) ==
    IF ok THEN [mem |-> now, disk |-> now] ELSE [mem |-> mem, disk |-> disk]

\* load_state, lines 986-1001: no file, or the file's last_check_time.
LoadStamp(mem, disk) == IF disk = NoTime THEN mem ELSE disk

StFrame ==
    UNCHANGED <<kill_now, memVars, diskVars, storeVars, monVars, waitVars, reqVars, pageVars,
                batchVars, sessVars, recent_activities, daily_stats, hourly_stats, total_gained,
                total_lost,
                f_calls, f_queries, f_cache, f_resp>>

StTick ==
    /\ f_now < MaxStamp
    /\ f_now' = f_now + 1
    /\ UNCHANGED <<stampVars, f_last, is_shutting_down>>
    /\ StFrame

StLoad ==
    /\ f_last = "none"
    /\ last_check_time' = LoadStamp(last_check_time, saved_check_time)
    /\ f_last' = "load"
    /\ UNCHANGED <<saved_check_time, f_now, is_shutting_down>>
    /\ StFrame

\* The save that ends initialization or a check cycle.
StCycleSave ==
    /\ f_last \in {"load", "cycle", "cycle_unsaved"}
    /\ \E ok \in BOOLEAN :
          LET s == SaveStamp(ok, f_now, last_check_time, saved_check_time)
          IN  /\ last_check_time' = s.mem
              /\ saved_check_time' = s.disk
              /\ f_last' = IF ok THEN "cycle" ELSE "cycle_unsaved"
    /\ UNCHANGED <<f_now, is_shutting_down>>
    /\ StFrame

\* cleanup, lines 1360-1387: its save is not the end of a cycle.
StCleanup ==
    /\ f_last # "cleanup"
    /\ is_shutting_down' = TRUE
    /\ \E ok \in BOOLEAN :
          LET s == SaveStamp(ok, f_now, last_check_time, saved_check_time)
          IN  /\ last_check_time' = s.mem
              /\ saved_check_time' = s.disk
    /\ f_last' = "cleanup"
    /\ UNCHANGED f_now
    /\ StFrame

InitStamp ==
    /\ InitShutdown
    /\ InitMem
    /\ state_file = NoFile
    /\ backup_file = NoFile
    /\ InitStore
    /\ InitMon
    /\ remote = {}
    /\ InitWaitVars
    /\ InitReq
    /\ InitPageVars
    /\ InitBatchVars
    /\ recent_activities = <<>>
    /\ daily_stats = <<>>
    /\ hourly_stats = <<>>
    /\ total_gained = 0
    /\ total_lost = 0
    /\ f_calls = 0
    /\ f_queries = 0
    /\ f_cache = <<>>
    /\ f_resp = NoResponseYet
    /\ f_last = "none"
    /\ f_now \in 1..2
    /\ last_check_time = NoTime
    /\ saved_check_time \in {NoTime} \cup 0..(f_now - 1)
    /\ c_pc = "start"
    /\ c_tasks = <<>>
    /\ c_session = 0
    /\ c_made = 0
    /\ c_closed = <<>>

NextStamp == StTick \/ StLoad \/ StCycleSave \/ StCleanup

SpecStamp == InitStamp /\ [][NextStamp]_vars

\* C34: last_check_time, in memory and in the state file, changes only in a
\* step that completes a cycle (or, in memory, when the file is loaded): the
\* final save of cleanup leaves both at the time of the last completed cycle.
C34_StampOnlyOnCompletedCycle ==
    [][(last_check_time' # last_check_time \/ saved_check_time' # saved_check_time)
          => f_last' \in {"load", "cycle"}]_vars

\* ---------------------------------------------------------------------------
\* SpecActivity: add_activity called more often than the feed is long.  The
\* n-th call reports a new star of user number n, so that every event of the
\* feed tells which call added it; the clock may advance between calls.
\* ---------------------------------------------------------------------------
MaxAdds == 52
MaxActClock == 1

AcAdd ==
    /\ f_calls < MaxAdds
    /\ SetFeed(AddActivity(CurFeed, [text |-> "new_star", user |-> f_calls + 1],
                           NoUserInfo, f_now))
    /\ f_calls' = f_calls + 1
    /\ f_last' = "new_star"
    /\ UNCHANGED <<memVars, diskVars, f_now, f_queries, f_cache, f_resp>>
    /\ FdFrame

AcTick ==
    /\ f_now < MaxActClock
    /\ f_now' = f_now + 1
    /\ f_last' = "tick"
    /\ UNCHANGED <<memVars, diskVars, recent_activities, daily_stats, hourly_stats, total_gained,
                   total_lost,
                   f_calls, f_queries, f_cache, f_resp>>
    /\ FdFrame

NextActivity == AcAdd \/ AcTick

SpecActivity == InitTrend /\ [][NextActivity]_vars

\* C35: after n add_activity calls the feed holds min(50, n) events, the
\* newest first, and they are exactly the last min(50, n) events added: the
\* i-th entry is the event of call n - i + 1.
C35_FeedIsNewestFifty ==
    /\ Len(recent_activities) = Min(max_activities, f_calls)
    /\ Len(recent_activities) <= max_activities
    /\ \A i \in 1..Len(recent_activities) :
          /\ recent_activities[i].message.user = f_calls - i + 1
          /\ i > 1 => recent_activities[i].time <= recent_activities[i - 1].time

C35_Witness ==
    /\ f_calls = max_activities + 2
    /\ Len(recent_activities) = max_activities
    /\ recent_activities[1].message.user = max_activities + 2
    /\ recent_activities[max_activities].message.user = 3
    /\ recent_activities[1].time > recent_activities[max_activities].time

\* ------------------------------------------------ the persisted member set
\* C36: a state file holding a snapshot of this repository with a non-empty
\* member set is replaced by a snapshot with a different member set only in a
\* run in which a fetch has completed (a cycle has left its record, or a check
\* cycle has been started, which takes a completed initialization).
C36_PersistedMembersKept ==
    [][(/\ state_file.kind = "snap"
        /\ state_file.repo = Repo
        /\ ListToSet(state_file.stargazers) # {}
        /\ state_file'.kind = "snap"
        /\ ListToSet(state_file'.stargazers) # ListToSet(state_file.stargazers))
          => (lastCycle' # NoCycle \/ checks' > 0)]_vars

\* ------------------------------------------------- a fetch cut short by the flag
\* C37: once the flag is set, no step of an initialization fetch or of a check
\* cycle changes current_stargazers, stargazers_info or total_stars, and none
\* reports an added or removed user: the list a fetch returned after it saw
\* the flag is dropped.
C37_TruncatedListUnused ==
    [][((kill_now \/ is_shutting_down) /\ pc \in {"init_fetch", "check", "init_check"})
          => UNCHANGED <<memVars, lastCycle, seen>>]_vars

\* The fetch of a check cycle has returned, with the flag set, a list that is
\* neither the remote list nor the members held.
C37_Witness ==
    /\ pc = "check"
    /\ fpc = "done"
    /\ kill_now
    /\ remoteChanges = 0
    /\ fetched # {}
    /\ fetched # remote
    /\ fetched # current_stargazers

\* ------------------------------------------------- removals and the remote list
\* C38: in a completed check cycle, with the remote list unchanged during the
\* run, no user reported as removed is on the remote list.
C38_RemovedAreAbsentRemotely ==
    [][(lastCycle' # lastCycle /\ lastCycle'.kind = "check" /\ remoteChanges' = 0)
          => lastCycle'.removed \cap remote' = {}]_vars

\* ------------------------------------------------------ the cache of the trend
\* C39: a trend query that is answered reflects every gain and loss recorded
\* before it: the counts it returns for today are the counts of daily_stats.
C39_TrendReflectsUpdates ==
    [][(f_queries' # f_queries /\ f_resp'.status = "ok" /\ f_resp'.days > 0
          /\ Len(f_resp'.data.labels) > 0) =>
          LET d == f_resp'.data
              n == Len(d.labels)
          IN /\ d.gained[n] = DayStat(daily_stats, DateKey(f_now)).gained
             /\ d.lost[n] = DayStat(daily_stats, DateKey(f_now)).lost]_vars

\* ---------------------------------------------------------------------------
\* SpecStats: the add_activity calls of cycles (new stars, lost stars) and of
\* start_monitoring (notes), the hours passing, and trend queries between them.
\* The n-th call names user number n.
\* ---------------------------------------------------------------------------
MaxStatCalls == 3
MaxStatClock == 2
MaxStatQueries == 1

StatsAdd ==
    /\ f_calls < MaxStatCalls
    /\ \E text \in {"new_star", "unstar", "started"} :
          /\ SetFeed(AddActivity(CurFeed, [text |-> text, user |-> f_calls + 1],
                                 NoUserInfo, f_now))
          /\ f_last' = text
    /\ f_calls' = f_calls + 1
    /\ UNCHANGED <<memVars, diskVars, f_now, f_queries, f_cache, f_resp>>
    /\ FdFrame

StatsTick == f_now < MaxStatClock /\ TrTick

\* A trend query with a positive number of days.
StatsTrend == f_queries < MaxStatQueries /\ TrTrend /\ f_resp'.days > 0

NextStats == StatsAdd \/ StatsTick \/ StatsTrend

SpecStats == InitTrend /\ [][NextStats]_vars

\* The sum of a counter over the entries of daily_stats or hourly_stats.
RECURSIVE SumOf(_, _, _)
SumOf(stats, keys, field) ==
    IF keys = {} THEN 0
    ELSE LET k == CHOOSE x \in keys : TRUE
         IN stats[k][field] + SumOf(stats, keys \ {k}, field)

Total(stats, field) == SumOf(stats, DOMAIN stats, field)

\* The events of the feed with the given text; the feed holds every event
\* emitted as long as fewer than max_activities were added.
Emitted(text) ==
    Cardinality({i \in 1..Len(recent_activities) : recent_activities[i].message.text = text})

StatSums ==
    <<Total(daily_stats, "gained"), Total(hourly_stats, "gained"), total_gained,
      Total(daily_stats, "lost"), Total(hourly_stats, "lost"), total_lost>>

\* C40: total_gained is the sum of the daily gained counters and the sum of
\* the hourly gained counters, and the number of added events emitted so far;
\* likewise total_lost and the removed events; a trend query changes no sum.
C40_TotalsAreSums ==
    /\ [](/\ total_gained = Total(daily_stats, "gained")
          /\ total_gained = Total(hourly_stats, "gained")
          /\ total_gained = Emitted("new_star")
          /\ total_lost = Total(daily_stats, "lost")
          /\ total_lost = Total(hourly_stats, "lost")
          /\ total_lost = Emitted("unstar"))
    /\ [][f_queries' # f_queries => StatSums' = StatSums]_vars

\* Gains on two days and a loss, with a trend answered in between that has
\* added zero entries to daily_stats.
C40_Witness ==
    /\ total_gained = 2
    /\ total_lost = 1
    /\ Cardinality(DOMAIN hourly_stats) >= 2
    /\ Cardinality(DOMAIN daily_stats) > Cardinality(DOMAIN hourly_stats)
    /\ f_resp.status = "ok"
    /\ Len(recent_activities) = 3

====
